---------------------------- MODULE Spec2Model ----------------------------
(***************************************************************************)
(* Model of the text pipeline of job-scraper (src/main.py, src/locations.py) *)
(* location classification, salary extraction, keyword extraction and       *)
(* preference scoring.                                                       *)
(*                                                                         *)
(* A Python str is modelled as a sequence of one-character strings, so     *)
(* that lowercasing, splitting, stripping and pattern matching are          *)
(* computed character by character as the code computes them.              *)
(***************************************************************************)
EXTENDS Integers, Sequences, FiniteSets, TLC

VARIABLES
    pc,           \* "input" while the caller assembles the arguments, "done" after the call
    typed,        \* number of pieces appended to the argument(s) so far
    location,     \* argument of in_usa
    title,        \* first argument of score_job
    description,  \* argument of extract_salary / extract_keywords, second of score_job
    usa,          \* value returned by in_usa
    salary,       \* value returned by extract_salary
    keywords,     \* value returned by extract_keywords
    scored,       \* value returned by score_job
    company_size_text,  \* argument of parse_company_size
    company_size,       \* value returned by parse_company_size
    url,          \* argument of normalize_url
    normalized,   \* value returned by normalize_url
    results,      \* __main__: the list returned by google_search
    idx,          \* __main__: index of the next entry of results
    existing_urls,  \* __main__: the set returned by load_existing_urls
    job_results,    \* the rows of job_results.csv
    glassdoor_csv,  \* the rows of glassdoor_data.csv
    scrape_log,     \* the company names scrape_glassdoor_data returned a result for
    fetched,        \* this run's last call of extract_job_info: URL, result, rating lookup, saved or not
    run_count       \* number of runs of the script started so far

textVars == <<location, title, description, usa, salary, keywords, scored>>
sizeVars == <<company_size_text, company_size>>
urlVars == <<url, normalized>>
mainVars == <<results, idx, existing_urls, job_results, glassdoor_csv,
              scrape_log, fetched, run_count>>

vars == <<pc, typed, textVars, sizeVars, urlVars, mainVars>>

\* The value of a result variable before the function has returned.
Unset == "unset"

\* The variables of the functions and of the script that a specification
\* does not exercise keep these values.
TextIdle ==
    /\ location = <<>>
    /\ title = <<>>
    /\ description = <<>>
    /\ usa = Unset
    /\ salary = Unset
    /\ keywords = Unset
    /\ scored = Unset

SizeIdle == company_size_text = <<>> /\ company_size = Unset

UrlIdle == url = <<>> /\ normalized = Unset

MainIdle ==
    /\ results = <<>>
    /\ idx = 1
    /\ existing_urls = {}
    /\ job_results = <<>>
    /\ glassdoor_csv = <<>>
    /\ scrape_log = <<>>
    /\ fetched = <<>>
    /\ run_count = 0

\* Number of pieces a caller may append to the location before calling in_usa.
MaxTyped == 3

\* Number of pieces a caller may append to the description before calling
\* extract_salary.
MaxSalaryTyped == 2

\* Number of pieces a caller may append to the text before calling
\* extract_keywords.
MaxKeywordTyped == 3

\* Number of pieces a caller may append to title and description together
\* before calling score_job.
MaxScoreTyped == 2

-----------------------------------------------------------------------------
(* Characters and str methods                                              *)

UpperLetters == <<"A","B","C","D","E","F","G","H","I","J","K","L","M","N","O","P","Q","R","S","T","U","V","W","X","Y","Z">>
LowerLetters == <<"a","b","c","d","e","f","g","h","i","j","k","l","m","n","o","p","q","r","s","t","u","v","w","x","y","z">>
Digits == <<"0","1","2","3","4","5","6","7","8","9">>

Range(f) == {f[i] : i \in DOMAIN f}

UpperSet == Range(UpperLetters)
LetterSet == Range(UpperLetters) \cup Range(LowerLetters)
DigitSet == Range(Digits)

IsUpper(c) == c \in UpperSet
IsLetter(c) == c \in LetterSet
IsDigit(c) == c \in DigitSet

\* str.isspace() for the ASCII characters of the model
Whitespace == {" ", "\t", "\n"}

\* str.lower() on one character
ToLower ==
    [c \in UpperSet |->
        LowerLetters[CHOOSE i \in DOMAIN UpperLetters : UpperLetters[i] = c]]

LowerChar(c) == IF IsUpper(c) THEN ToLower[c] ELSE c

\* str.lower()
Lower(s) == [i \in DOMAIN s |-> LowerChar(s[i])]

\* str.strip(): drop leading and trailing whitespace
RECURSIVE LStrip(_)
LStrip(s) ==
    IF s # <<>> /\ Head(s) \in Whitespace THEN LStrip(Tail(s)) ELSE s

RECURSIVE RStrip(_)
RStrip(s) ==
    IF s # <<>> /\ s[Len(s)] \in Whitespace
    THEN RStrip(SubSeq(s, 1, Len(s) - 1))
    ELSE s

Strip(s) == RStrip(LStrip(s))

-----------------------------------------------------------------------------
(* locations.py                                                            *)

allow_locales == {
    <<"r","e","m","o","t","e">>, <<"u","n","i","t","e","d"," ","s","t","a","t","e","s">>, <<"u","s">>, <<"a","m","e","r","i","c","a","s">>,
    <<"s","i","l","i","c","o","n"," ","v","a","l","l","e","y">>, <<"s","a","n"," ","f","r","a","n","c","i","s","c","o">>, <<"b","a","y"," ","a","r","e","a">>,
    <<"n","e","w"," ","y","o","r","k"," ","c","i","t","y">>, <<"n","y","c">>, <<"l","o","s"," ","a","n","g","e","l","e","s">> }

exclude_locales == {
    <<"c","a","n","a","d","a">>, <<"l","a","t","a","m">>, <<"e","u","r","o","p","e">>, <<"m","e","x","i","c","o">>, <<"g","e","r","m","a","n","y">>,
    <<"u","k">>, <<"a","p","a","c">>, <<"l","o","n","d","o","n">>, <<"a","r","g","e","n","t","i","n","a">>, <<"b","r","a","z","i","l">>,
    <<"i","r","e","l","a","n","d">>, <<"u","n","i","t","e","d"," ","k","i","n","g","d","o","m">>, <<"s","p","a","i","n">>, <<"i","t","a","l","y">>,
    <<"p","o","l","a","n","d">>, <<"c","z","e","c","h"," ","r","e","p","u","b","l","i","c">>, <<"b","u","l","g","a","r","i","a">>, <<"n","e","t","h","e","r","l","a","n","d","s">>,
    <<"s","l","o","v","a","k","i","a">>, <<"h","u","n","g","a","r","y">>, <<"c","a","s","a","b","l","a","n","c","a">>, <<"m","o","r","o","c","c","o">>,
    <<"i","n","d","i","a">>, <<"w","a","r","s","a","w">>, <<"p","a","r","i","s">>, <<"c","h","i","l","e">>, <<"c","o","l","o","m","b","i","a">>,
    <<"f","r","a","n","c","e">>, <<"s","w","e","d","e","n">>, <<"l","i","s","b","o","n">>, <<"p","o","r","t","u","g","a","l">> }

-----------------------------------------------------------------------------
(* in_usa                                                                  *)

\* The delimiter list without its last entry, the space.
delimiters_NoSpace == {",", "/", "-", "(", ")", "&", ";"}

delimiters == {",", "/", "-", "(", ")", "&", ";", " "}

\* re.split(pattern, location) for a pattern that is an alternation of
\* single characters: the pieces between consecutive delimiters, empty
\* pieces included.
RECURSIVE re_split(_)
re_split(s) ==
    IF \E i \in DOMAIN s : s[i] \in delimiters
    THEN LET i == CHOOSE k \in DOMAIN s :
                      /\ s[k] \in delimiters
                      /\ \A m \in 1..(k - 1) : s[m] \notin delimiters
         IN  <<SubSeq(s, 1, i - 1)>> \o re_split(SubSeq(s, i + 1, Len(s)))
    ELSE <<s>>

\* in_usa with the two loops exchanged: the exclude list is consulted first.
in_usa_DenyFirst(loc) ==
    LET words == re_split(Lower(loc))
    IN  IF \E i \in DOMAIN words : Strip(words[i]) \in exclude_locales
        THEN FALSE
        ELSE TRUE

\* in_usa with the final return inverted.
in_usa_DefaultFalse(loc) ==
    LET words == re_split(Lower(loc))
    IN  IF \E i \in DOMAIN words : Strip(words[i]) \in allow_locales
        THEN TRUE
        ELSE FALSE

\* in_usa whose second loop looks at the first word only.
in_usa_FirstWordOnly(loc) ==
    LET words == re_split(Lower(loc))
    IN  IF \E i \in DOMAIN words : Strip(words[i]) \in allow_locales
        THEN TRUE
        ELSE IF Strip(words[1]) \in exclude_locales
        THEN FALSE
        ELSE TRUE

in_usa(loc) ==
    LET words == re_split(Lower(loc))
    IN  IF \E i \in DOMAIN words : Strip(words[i]) \in allow_locales
        THEN TRUE
        ELSE IF \E i \in DOMAIN words : Strip(words[i]) \in exclude_locales
        THEN FALSE
        ELSE TRUE

-----------------------------------------------------------------------------
(* Callers of in_usa: the location strings of tests/test_in_usa.py and of  *)
(* the specification, each optionally extended by up to MaxTyped pieces.   *)

Loc_Multi == <<"T","o","r","o","n","t","o",","," ","C","A","N",","," ","S","a","n"," ","F","r","a","n","c","i","s","c","o",","," ","C","A"," ","&"," ","R","e","m","o","t","e"," ","-"," ","U","S"," ","&"," ","C","a","n","a","d","a">>
Loc_RemoteCanada == <<"R","e","m","o","t","e",","," ","C","a","n","a","d","a">>
Loc_RemoteUSA == <<"R","e","m","o","t","e",","," ","U","S","A">>
Loc_RemoteAPAC == <<"R","e","m","o","t","e",","," ","A","P","A","C">>
Loc_RemotePoland == <<"R","e","m","o","t","e"," ","P","o","l","a","n","d">>
Loc_RemoteEMEA == <<"R","e","m","o","t","e",","," ","E","M","E","A">>
Loc_UK == <<"C","a","r","d","i","f","f",","," ","L","o","n","d","o","n"," ","o","r"," ","R","e","m","o","t","e"," ","(","U","K",")">>
Loc_Remote == <<"R","e","m","o","t","e">>
Loc_Unknown == <<"N","e","v","e","r","h","e","a","r","d","o","f","i","t">>
Loc_Germany == <<"G","e","r","m","a","n","y"," ","-"," ","F","r","a","n","k","f","u","r","t">>
Loc_ManyLocs2 == <<"D","u","b","l","i","n",";"," ","A","m","s","t","e","r","d","a","m",";"," ","P","o","l","a","n","d",";"," ","B","r","a","z","i","l">>
Loc_UnitedKingdom == <<"U","n","i","t","e","d"," ","K","i","n","g","d","o","m">>
Loc_Irelandish == <<"I","r","e","l","a","n","d","i","s","h">>
Loc_CzechRepublic == <<"C","z","e","c","h"," ","R","e","p","u","b","l","i","c">>
Loc_NewYorkCity == <<"N","e","w"," ","Y","o","r","k"," ","C","i","t","y">>
Loc_Empty == <<>>

TestLocations == {
    Loc_Multi, Loc_RemoteCanada, Loc_RemoteUSA, Loc_RemoteAPAC,
    Loc_RemotePoland, Loc_RemoteEMEA, Loc_UK, Loc_Remote, Loc_Unknown,
    Loc_Germany, Loc_ManyLocs2, Loc_UnitedKingdom, Loc_Irelandish,
    Loc_CzechRepublic, Loc_NewYorkCity, Loc_Empty }

LocationPieces == {
    <<"R","e","m","o","t","e">>, <<"C","a","n","a","d","a">>, <<"u","s">>, <<"i","s","h">>, <<",">>, <<" ">>, <<"\t">> }

InitInUsa ==
    /\ pc = "input"
    /\ typed = 0
    /\ location \in TestLocations
    /\ title = <<>>
    /\ description = <<>>
    /\ usa = Unset
    /\ salary = Unset
    /\ keywords = Unset
    /\ scored = Unset
    /\ SizeIdle /\ UrlIdle /\ MainIdle

TypeLocation ==
    /\ pc = "input"
    /\ typed < MaxTyped
    /\ \E p \in LocationPieces : location' = location \o p
    /\ typed' = typed + 1
    /\ UNCHANGED <<pc, title, description, usa, salary, keywords, scored>>
    /\ UNCHANGED <<sizeVars, urlVars, mainVars>>

CallInUsa ==
    /\ pc = "input"
    /\ usa' = in_usa(location)
    /\ pc' = "done"
    /\ UNCHANGED <<typed, location, title, description, salary, keywords, scored>>
    /\ UNCHANGED <<sizeVars, urlVars, mainVars>>

NextInUsa == TypeLocation \/ CallInUsa

SpecInUsa == InitInUsa /\ [][NextInUsa]_vars

-----------------------------------------------------------------------------
(* Tokens of a location, stated on positions: a token is a maximal         *)
(* delimiter-free run of the lowercased string, with surrounding           *)
(* whitespace trimmed.                                                     *)

IsRun(s, i, j) ==
    /\ i <= j
    /\ \A k \in i..j : s[k] \notin delimiters
    /\ i = 1 \/ s[i - 1] \in delimiters
    /\ j = Len(s) \/ s[j + 1] \in delimiters

TokensOf(loc) ==
    LET s == Lower(loc)
        starts == {i \in DOMAIN s :
                     s[i] \notin delimiters /\ (i = 1 \/ s[i - 1] \in delimiters)}
        end(i) == CHOOSE j \in i..Len(s) : IsRun(s, i, j)
    IN  {Strip(SubSeq(s, i, end(i))) : i \in starts} \ {<<>>}

HasAllowToken(loc) == TokensOf(loc) \cap allow_locales # {}
HasDenyToken(loc) == TokensOf(loc) \cap exclude_locales # {}

C2_RemoteAbroad ==
    pc = "done" =>
        /\ location \in {Loc_RemoteCanada, Loc_RemoteAPAC, Loc_RemotePoland,
                         Loc_RemoteEMEA, Loc_UK} => usa = FALSE
        /\ location \in {Loc_RemoteUSA, Loc_Remote} => usa = TRUE

C4_DenyExcludes ==
    pc = "done" /\ HasDenyToken(location) /\ ~HasAllowToken(location)
        => usa = FALSE

\* in_usa has returned False for a location whose exclude tokens are not the first word.
C4_Witness ==
    /\ pc = "done"
    /\ location = Loc_ManyLocs2
    /\ HasDenyToken(location) /\ ~HasAllowToken(location)
    /\ usa = FALSE

\* The words in_usa looks up in the two lists: the pieces of the split,
\* stripped.
ComparedWords(loc) ==
    LET words == re_split(Lower(loc))
    IN  {Strip(words[i]) : i \in DOMAIN words}

\* The entries of the two lists that contain a space.
SpacedEntries ==
    {e \in allow_locales \cup exclude_locales : " " \in Range(e)}

\* C17: the space is a split delimiter, so no word in_usa compares against
\* the lists contains a space, and the comparison is exact membership: an
\* entry with a space ("united kingdom", "czech republic", "united states",
\* "san francisco", "new york city") is never equal to a compared word, a
\* location that is just such an entry ("United Kingdom") gets the default
\* True, and a word that contains an entry as a proper substring
\* ("Irelandish") does not match it.
C17_SpacedEntriesNeverMatch ==
    pc = "done" =>
        /\ \A w \in ComparedWords(location) : " " \notin Range(w)
        /\ ComparedWords(location) \cap SpacedEntries = {}
        /\ {<<"u","n","i","t","e","d"," ","k","i","n","g","d","o","m">>, <<"c","z","e","c","h"," ","r","e","p","u","b","l","i","c">>, <<"u","n","i","t","e","d"," ","s","t","a","t","e","s">>,
            <<"s","a","n"," ","f","r","a","n","c","i","s","c","o">>, <<"n","e","w"," ","y","o","r","k"," ","c","i","t","y">>} \subseteq SpacedEntries
        /\ Lower(location) \in SpacedEntries => usa = TRUE
        /\ location = Loc_UnitedKingdom => usa = TRUE
        /\ location = Loc_Irelandish =>
               /\ <<"i","r","e","l","a","n","d">> \in exclude_locales
               /\ <<"i","r","e","l","a","n","d">> \notin ComparedWords(location)
               /\ usa = TRUE

\* in_usa has returned True for "United Kingdom", an entry of exclude_locales.
C17_Witness ==
    /\ pc = "done"
    /\ location = Loc_UnitedKingdom
    /\ Lower(location) \in exclude_locales
    /\ ComparedWords(location) = {<<"u","n","i","t","e","d">>, <<"k","i","n","g","d","o","m">>}
    /\ usa = TRUE


-----------------------------------------------------------------------------
(* extract_salary                                                          *)
(*                                                                         *)
(* A position is the 1-based index of the next character to read; 0 means  *)
(* that the pattern element does not match.                                *)

\* The value None of an Optional[int]; the amounts themselves are never negative.
None == -1

\* The literal w matches at position i, ignoring case: (?i)
LiteralAt(s, i, w) ==
    /\ i >= 1
    /\ i + Len(w) - 1 <= Len(s)
    /\ \A k \in DOMAIN w : LowerChar(s[i + k - 1]) = w[k]

\* A label that matches the empty string: the patterns without their label.
label_Missing(s, i) == i

\* (?:salary|range) at position i: the position after the label.
label(s, i) ==
    IF LiteralAt(s, i, <<"s","a","l","a","r","y">>) THEN i + 6
    ELSE IF LiteralAt(s, i, <<"r","a","n","g","e">>) THEN i + 5
    ELSE 0

\* [^$]*\$ from position i: [^$]* is greedy and must be followed by "$", so
\* it stops at the first "$" at or after i. The position of that "$".
to_dollar(s, i) ==
    IF i >= 1 /\ \E d \in i..Len(s) : s[d] = "$"
    THEN CHOOSE d \in i..Len(s) :
             s[d] = "$" /\ \A m \in i..(d - 1) : s[m] # "$"
    ELSE 0

DigitAt(s, i) == i >= 1 /\ i <= Len(s) /\ IsDigit(s[i])

\* \s? after the "$" at position d, then the first digit of the group: the
\* position where the group begins. \s? first tries to take one whitespace
\* character and falls back to taking none.
amount_start(s, d) ==
    IF d = 0 THEN 0
    ELSE IF d + 1 <= Len(s) /\ s[d + 1] \in Whitespace /\ DigitAt(s, d + 2)
    THEN d + 2
    ELSE IF DigitAt(s, d + 1) THEN d + 1
    ELSE 0

\* (?:,\d{3})* greedy from position i: the position after the last group.
RECURSIVE comma_groups(_, _)
comma_groups(s, i) ==
    IF /\ i <= Len(s) /\ s[i] = ","
       /\ DigitAt(s, i + 1) /\ DigitAt(s, i + 2) /\ DigitAt(s, i + 3)
    THEN comma_groups(s, i + 4)
    ELSE i

\* A group that takes every digit and comma that follows its first digit.
RECURSIVE amount_end_AllDigits(_, _)
amount_end_AllDigits(s, g) ==
    IF DigitAt(s, g + 1) \/ (g + 1 <= Len(s) /\ s[g + 1] = ",")
    THEN amount_end_AllDigits(s, g + 1)
    ELSE g + 1

\* \d{1,3}(?:,\d{3})* greedy from position g, where a digit stands: the
\* position after the group. What follows the group in either pattern
\* (nothing, or [^$]*?) matches wherever the group ends, so the greedy
\* choice is the one the match keeps.
amount_end(s, g) ==
    LET n == IF DigitAt(s, g + 1) /\ DigitAt(s, g + 2) THEN 3
             ELSE IF DigitAt(s, g + 1) THEN 2
             ELSE 1
    IN  comma_groups(s, g + n)

NoMatch == [start |-> 0, g1 |-> 0, e1 |-> 0, g2 |-> 0, e2 |-> 0]

\* single_salary_pattern matched from position p: the span of group 1.
single_at(s, p) ==
    LET g1 == amount_start(s, to_dollar(s, label(s, p)))
    IN  IF g1 = 0 THEN NoMatch
        ELSE [start |-> p, g1 |-> g1, e1 |-> amount_end(s, g1), g2 |-> 0, e2 |-> 0]

\* salary_pattern whose second amount must begin within ten characters of
\* the end of the first.
range_at_Near(s, p) ==
    LET m1 == single_at(s, p)
        g2 == IF m1 = NoMatch THEN 0 ELSE amount_start(s, to_dollar(s, m1.e1))
    IN  IF g2 = 0 \/ g2 > m1.e1 + 10 THEN NoMatch
        ELSE [m1 EXCEPT !.g2 = g2, !.e2 = amount_end(s, g2)]

\* salary_pattern matched from position p: the spans of groups 1 and 2.
\* [^$]*?\$ is lazy, but the only "$" it can end on is the next one.
range_at(s, p) ==
    LET m1 == single_at(s, p)
        g2 == IF m1 = NoMatch THEN 0 ELSE amount_start(s, to_dollar(s, m1.e1))
    IN  IF g2 = 0 THEN NoMatch
        ELSE [m1 EXCEPT !.g2 = g2, !.e2 = amount_end(s, g2)]

Min(S) == CHOOSE x \in S : \A y \in S : x <= y
Max(S) == CHOOSE x \in S : \A y \in S : x >= y

\* pattern.search with the match that starts last instead of first.
range_search_Last(s) ==
    LET hits == {p \in 1..Len(s) : range_at(s, p) # NoMatch}
    IN  IF hits = {} THEN NoMatch ELSE range_at(s, Max(hits))

\* salary_pattern.search(description): the match at the leftmost position
\* from which the pattern matches.
range_search(s) ==
    LET hits == {p \in 1..Len(s) : range_at(s, p) # NoMatch}
    IN  IF hits = {} THEN NoMatch ELSE range_at(s, Min(hits))

\* single_salary_pattern.search(description)
single_search(s) ==
    LET hits == {p \in 1..Len(s) : single_at(s, p) # NoMatch}
    IN  IF hits = {} THEN NoMatch ELSE single_at(s, Min(hits))

ToDigit == [c \in DigitSet |-> (CHOOSE i \in DOMAIN Digits : Digits[i] = c) - 1]

DigitValue(c) == ToDigit[c]

\* int(group.replace(",", "")) for the characters s[g..e-1]
RECURSIVE int_group(_, _, _)
int_group(s, g, e) ==
    IF e <= g THEN 0
    ELSE IF s[e - 1] = "," THEN int_group(s, g, e - 1)
    ELSE 10 * int_group(s, g, e - 1) + DigitValue(s[e - 1])

\* extract_salary that looks for a single salary before it looks for a range.
extract_salary_SingleFirst(s) ==
    LET single_match == single_search(s)
        range_match == range_search(s)
    IN  IF single_match # NoMatch
        THEN <<int_group(s, single_match.g1, single_match.e1), None>>
        ELSE IF range_match # NoMatch
        THEN <<int_group(s, range_match.g1, range_match.e1),
               int_group(s, range_match.g2, range_match.e2)>>
        ELSE <<None, None>>

extract_salary(s) ==
    LET range_match == range_search(s)
        single_match == single_search(s)
    IN  IF range_match # NoMatch
        THEN <<int_group(s, range_match.g1, range_match.e1),
               int_group(s, range_match.g2, range_match.e2)>>
        ELSE IF single_match # NoMatch
        THEN <<int_group(s, single_match.g1, single_match.e1), None>>
        ELSE <<None, None>>

-----------------------------------------------------------------------------
(* Callers of extract_salary: descriptions of tests/test_extract_salary.py *)
(* and of the specification, each optionally extended by MaxSalaryTyped    *)
(* SalaryPieces.                                                           *)

Desc_Single == <<"T","h","e"," ","e","x","p","e","c","t","e","d"," ","s","a","l","a","r","y"," ","f","o","r"," ","t","h","i","s"," ","p","o","s","i","t","i","o","n"," ","i","s"," ","$","1","2","0",",","0","0","0"," ","U","S","D",".">>
Desc_NoSalary == <<"T","h","i","s"," ","i","s"," ","a","n"," ","e","q","u","i","t","y","-","o","n","l","y"," ","p","o","s","i","t","i","o","n",".">>
Desc_LongText == <<"T","h","e"," ","e","x","p","e","c","t","e","d"," ","s","a","l","a","r","y"," ","r","a","n","g","e"," ","f","o","r"," ","t","h","i","s"," ","p","o","s","i","t","i","o","n"," ","i","s"," ","$","1","0","2",",","0","0","0"," ","t","o"," ","$","1","3","1",",","0","0","0"," ","C","A","D">>
Desc_Parenthesis == <<"C","u","r","r","e","n","t"," ","b","a","s","e"," ","s","a","l","a","r","y"," ","r","a","n","g","e",":"," ","(","$","1","6","0",",","0","0","0"," ","-"," ","$","1","8","0",",","0","0","0",")",".">>
Desc_WideRange == <<"T","h","e"," ","s","a","l","a","r","y"," ","r","a","n","g","e"," ","f","o","r"," ","t","h","i","s"," ","r","o","l","e"," ","i","s"," ","$","1",",","0","0","0"," ","-"," ","$","1","0","0",",","0","0","0",",","0","0","0"," ","U","S","D",".">>
Desc_Multiple == <<"U","S","A","-","b","a","s","e","d"," ","r","o","l","e","s"," ","o","n","l","y",":"," ","T","h","e"," ","A","n","n","u","a","l"," ","b","a","s","e"," ","s","a","l","a","r","y"," ","f","o","r"," ","t","h","i","s"," ","r","o","l","e"," ","i","s"," ","b","e","t","w","e","e","n"," ","$","1","2","1",",","0","0","0"," ","U","S","D"," ","a","n","d"," ","$","1","6","3",",","0","0","0"," ","U","S","D",".",".","."," ","C","a","n","a","d","a","-","b","a","s","e","d"," ","r","o","l","e","s"," ","o","n","l","y",":"," ","T","h","e"," ","A","n","n","u","a","l"," ","b","a","s","e"," ","s","a","l","a","r","y"," ","f","o","r"," ","t","h","i","s"," ","r","o","l","e"," ","i","s"," ","b","e","t","w","e","e","n"," ","$","1","0","9",",","0","0","0"," ","C","A","D"," ","a","n","d"," ","$","1","4","7",",","0","0","0"," ","C","A","D">>
Desc_AfterFunding == <<"H","a","c","k","e","r","R","a","n","k"," ","i","s"," ","a"," ","Y"," ","C","o","m","b","i","n","a","t","o","r"," ","a","l","u","m","n","u","s"," ","w","i","t","h"," ","t","o","t","a","l"," ","f","u","n","d","i","n","g"," ","o","f"," ","o","v","e","r"," ","$","1","0","0"," ","m","i","l","l","i","o","n","."," ","T","o","t","a","l"," ","c","o","m","p","e","n","s","a","t","i","o","n"," ","a","n","d"," ","b","e","n","e","f","i","t","s"," ","c","o","n","s","i","s","t"," ","o","f"," ","s","a","l","a","r","y",","," ","e","q","u","i","t","y","."," ","C","u","r","r","e","n","t"," ","b","a","s","e"," ","s","a","l","a","r","y"," ","r","a","n","g","e",":"," ","(","$","1","6","0",",","0","0","0"," ","-"," ","$","1","8","0",",","0","0","0",")","."," ","T","h","e"," ","e","x","a","c","t"," ","s","a","l","a","r","y"," ","m","a","y"," ","v","a","r","y",".">>
Desc_Stipend == <<"T","h","e"," ","e","x","p","e","c","t","e","d"," ","s","a","l","a","r","y"," ","f","o","r"," ","t","h","i","s"," ","p","o","s","i","t","i","o","n"," ","i","s"," ","$","1","2","0",",","0","0","0"," ","U","S","D",","," ","p","l","u","s"," ","a"," ","m","o","n","t","h","l","y"," ","s","t","i","p","e","n","d"," ","o","f"," ","$","5","0","0",".">>
Desc_SingleThenRange == <<"S","t","a","r","t","i","n","g"," ","s","a","l","a","r","y"," ","$","5",",","0","0","0"," ","(","s","i","g","n","i","n","g"," ","f","e","e"," ","$","T","B","D",")","."," ","P","a","y"," ","r","a","n","g","e",":"," ","$","1","0",",","0","0","0"," ","-"," ","$","2","0",",","0","0","0">>
Desc_Ungrouped == <<"S","a","l","a","r","y",":"," ","$","1","2","0","0","0","0">>
Desc_Empty == <<>>

TestDescriptions == {
    Desc_Single, Desc_NoSalary, Desc_LongText, Desc_Parenthesis,
    Desc_WideRange, Desc_Multiple, Desc_AfterFunding, Desc_Stipend,
    Desc_SingleThenRange, Desc_Ungrouped, Desc_Empty }

SalaryPieces == {
    <<" ","s","a","l","a","r","y"," ">>, <<"R","a","n","g","e",":"," ">>, <<"$","1","2",",","0","0","0">>, <<"$","T","B","D">>,
    <<" ","s","t","i","p","e","n","d"," ","o","f"," ">>, <<"$"," ","5","0","0">> }

InitSalary ==
    /\ pc = "input"
    /\ typed = 0
    /\ location = <<>>
    /\ title = <<>>
    /\ description \in TestDescriptions
    /\ usa = Unset
    /\ salary = Unset
    /\ keywords = Unset
    /\ scored = Unset
    /\ SizeIdle /\ UrlIdle /\ MainIdle

TypeDescription ==
    /\ pc = "input"
    /\ typed < MaxSalaryTyped
    /\ \E p \in SalaryPieces : description' = description \o p
    /\ typed' = typed + 1
    /\ UNCHANGED <<pc, location, title, usa, salary, keywords, scored>>
    /\ UNCHANGED <<sizeVars, urlVars, mainVars>>

CallExtractSalary ==
    /\ pc = "input"
    /\ salary' = extract_salary(description)
    /\ pc' = "done"
    /\ UNCHANGED <<typed, location, title, description, usa, keywords, scored>>
    /\ UNCHANGED <<sizeVars, urlVars, mainVars>>

NextSalary == TypeDescription \/ CallExtractSalary

SpecSalary == InitSalary /\ [][NextSalary]_vars

-----------------------------------------------------------------------------
(* Dollar figures of a description, stated on positions.                   *)

\* A label "salary" or "range" begins at position p, in any case.
LabelAt(s, p) == LiteralAt(s, p, <<"s","a","l","a","r","y">>) \/ LiteralAt(s, p, <<"r","a","n","g","e">>)

LabelPositions(s) == {p \in 1..Len(s) : LabelAt(s, p)}

\* The "$" positions that introduce an amount, and the amount's value.
Figures(s) == {d \in 1..Len(s) : s[d] = "$" /\ amount_start(s, d) # 0}
FigureValue(s, d) ==
    LET g == amount_start(s, d) IN int_group(s, g, amount_end(s, g))

\* C5: every amount extract_salary returns is the value of a dollar figure
\* that stands after the first label "salary"/"range" of the text, the
\* second after the first; with a funding figure before the label and a
\* labelled range after it, the result is the labelled range.
C5_NeverBeforeLabel ==
    pc = "done" =>
        /\ salary[1] # None =>
              /\ LabelPositions(description) # {}
              /\ \E d1 \in Figures(description) :
                    /\ d1 > Min(LabelPositions(description))
                    /\ salary[1] = FigureValue(description, d1)
                    /\ salary[2] # None =>
                          \E d2 \in Figures(description) :
                              d2 > d1 /\ salary[2] = FigureValue(description, d2)
        /\ salary[1] = None => salary[2] = None
        /\ description = Desc_AfterFunding => salary = <<160000, 180000>>

\* extract_salary has returned the labelled range of a text whose first
\* dollar figure stands before the first label.
C5_Witness ==
    /\ pc = "done"
    /\ description = Desc_AfterFunding
    /\ \E d \in Figures(description) : d < Min(LabelPositions(description))
    /\ salary = <<160000, 180000>>

\* The positions from which each pattern matches, and what a match yields.
RangeStarts(s) == {p \in 1..Len(s) : range_at(s, p) # NoMatch}
SingleStarts(s) == {p \in 1..Len(s) : single_at(s, p) # NoMatch}
PairAt(s, p) ==
    LET m == range_at(s, p)
    IN  <<int_group(s, m.g1, m.e1), int_group(s, m.g2, m.e2)>>
AmountAt(s, p) ==
    LET m == single_at(s, p) IN int_group(s, m.g1, m.e1)

\* C6: the range pattern is tried first over the whole text. If it matches
\* anywhere the result is the two amounts of a range match, even when the
\* single-amount pattern matches from an earlier label; if it matches
\* nowhere the result is (amount, None) of the single-amount pattern; if
\* neither matches the result is (None, None).
C6_RangeBeforeSingle ==
    pc = "done" =>
        LET R == RangeStarts(description)
            S == SingleStarts(description)
        IN  /\ R # {} => \E p \in R : salary = PairAt(description, p)
            /\ R = {} /\ S # {} =>
                  salary = <<AmountAt(description, Min(S)), None>>
            /\ S = {} => salary = <<None, None>>

\* extract_salary has returned a range although a label followed by a
\* single amount stands earlier in the text.
C6_Witness ==
    /\ pc = "done"
    /\ description = Desc_SingleThenRange
    /\ Min(SingleStarts(description)) < Min(RangeStarts(description))
    /\ salary = <<10000, 20000>>

\* The "$" at position d is introduced as a stipend, not as a salary.
StipendFigure(s, d) ==
    /\ d > 11
    /\ LiteralAt(s, d - 11, <<"s","t","i","p","e","n","d"," ","o","f"," ">>)

\* The amount that begins at g and ends before e is a whole comma-grouped
\* number: no further digit or group fragment follows it.
WholeAmount(s, e) == ~DigitAt(s, e) /\ ~(e <= Len(s) /\ s[e] = "," /\ DigitAt(s, e + 1))

\* C7: single salary. When a label is followed by one comma-grouped dollar
\* amount and every other dollar figure of the text is a stipend, not a
\* salary, extract_salary returns (amount, None).
C7_SingleSalary ==
    pc = "done" =>
        LET S == SingleStarts(description)
            m == single_at(description, Min(S))
            d1 == to_dollar(description, label(description, Min(S)))
        IN  ( /\ S # {}
              /\ WholeAmount(description, m.e1)
              /\ \A d \in 1..Len(description) :
                    description[d] = "$" /\ d # d1 => StipendFigure(description, d) )
            => salary = <<AmountAt(description, Min(S)), None>>

\* C8: with several labelled ranges the result is the pair of the range
\* match that starts earliest, whatever follows the amounts (USD, CAD).
C8_EarliestRange ==
    pc = "done" /\ RangeStarts(description) # {}
        => salary = PairAt(description, Min(RangeStarts(description)))

\* extract_salary has returned the first of two different labelled ranges.
C8_Witness ==
    /\ pc = "done"
    /\ description = Desc_Multiple
    /\ \E p, q \in RangeStarts(description) :
          p < q /\ PairAt(description, p) # PairAt(description, q)
    /\ salary = <<121000, 163000>>

\* The first "$" after position p, 0 without one.
NextDollar(s, p) ==
    LET ds == {d \in (p + 1)..Len(s) : s[d] = "$"}
    IN  IF ds = {} THEN 0 ELSE CHOOSE d \in ds : \A x \in ds : d <= x

\* The labels whose first "$" introduces an amount and whose next "$" after
\* that one introduces an amount too.
RangeLabels(s) ==
    {p \in LabelPositions(s) :
        LET d1 == NextDollar(s, p)
        IN  /\ d1 \in Figures(s)
            /\ NextDollar(s, d1) \in Figures(s)}

\* The two figures read from label p.
FiguresFrom(s, p) ==
    LET d1 == NextDollar(s, p)
    IN  <<FigureValue(s, d1), FigureValue(s, NextDollar(s, d1))>>

\* C18: when extract_salary returns two values, min is the amount at the
\* first "$" after the matched label and max is the amount at the very next
\* "$" of the text: no "$" lies between the two, however far apart they are
\* and whatever stands between them. Hence a labelled amount followed
\* anywhere later by another dollar amount, such as a stipend, comes back as
\* the range (salary, that amount).
C18_NextDollarIsMax ==
    pc = "done" =>
        /\ salary[2] # None =>
              \E p \in LabelPositions(description) :
                  LET d1 == NextDollar(description, p)
                      d2 == NextDollar(description, d1)
                  IN  /\ d1 \in Figures(description)
                      /\ d2 \in Figures(description)
                      /\ \A k \in (d1 + 1)..(d2 - 1) : description[k] # "$"
                      /\ salary = <<FigureValue(description, d1),
                                    FigureValue(description, d2)>>
        /\ RangeLabels(description) # {} =>
              salary = FiguresFrom(description, Min(RangeLabels(description)))
        /\ description = Desc_Stipend => salary = <<120000, 500>>

\* extract_salary has returned a stipend as the maximum: the second figure
\* stands more than thirty characters after the first, without a label
\* between them.
C18_Witness ==
    /\ pc = "done"
    /\ description = Desc_Stipend
    /\ LET p == Min(RangeLabels(description))
           d1 == NextDollar(description, p)
           d2 == NextDollar(description, d1)
       IN  /\ StipendFigure(description, d2)
           /\ d2 > d1 + 30
           /\ \A q \in LabelPositions(description) : q < d1
    /\ salary = <<120000, 500>>

\* The text after the "$" at position d and one optional whitespace
\* character begins at this position.
AfterDollar(s, d) ==
    IF d + 1 <= Len(s) /\ s[d + 1] \in Whitespace THEN d + 2 ELSE d + 1

\* s[g..e-1] has the form: 1 to 3 digits, then zero or more groups of a
\* comma and exactly 3 digits.
GroupedForm(s, g, e) ==
    \E n \in 1..3 :
        /\ g + n <= e
        /\ e - 1 <= Len(s)
        /\ \A k \in g..(g + n - 1) : IsDigit(s[k])
        /\ (e - g - n) % 4 = 0
        /\ \A k \in (g + n)..(e - 1) :
               IF (k - g - n) % 4 = 0 THEN s[k] = "," ELSE IsDigit(s[k])

\* The end of the longest prefix of s[g..] of that form, 0 without one.
LongestGrouped(s, g) ==
    LET ends == {e \in (g + 1)..(Len(s) + 1) : GroupedForm(s, g, e)}
    IN  IF ends = {} THEN 0 ELSE CHOOSE e \in ends : \A x \in ends : e >= x

\* The base-10 value of the digits of a string, its commas left out.
RECURSIVE Base10(_)
Base10(w) ==
    IF w = <<>> THEN 0
    ELSE IF w[Len(w)] = "," THEN Base10(SubSeq(w, 1, Len(w) - 1))
    ELSE 10 * Base10(SubSeq(w, 1, Len(w) - 1))
             + (CHOOSE v \in 0..9 : Digits[v + 1] = w[Len(w)])

\* The value of the longest grouped prefix after the "$" at position d,
\* -1 without one.
GroupedValue(s, d) ==
    LET g == AfterDollar(s, d)
        e == LongestGrouped(s, g)
    IN  IF e = 0 THEN -1 ELSE Base10(SubSeq(s, g, e - 1))

Dollars(s) == {d \in 1..Len(s) : s[d] = "$"}

\* C19: every value extract_salary returns is a non-negative integer, the
\* base-10 value, commas removed, of the longest prefix of the text after a
\* "$" (and one optional whitespace character) that consists of 1 to 3
\* digits and then zero or more groups of a comma and exactly 3 digits.
\* Digits after that prefix are ignored: "$100,000,000" gives 100000000,
\* the ungrouped "$120000" gives 120.
C19_GroupedPrefix ==
    pc = "done" =>
        /\ \A k \in 1..2 :
               salary[k] # None =>
                   /\ salary[k] \in Nat
                   /\ \E d \in Dollars(description) :
                          salary[k] = GroupedValue(description, d)
        /\ \A d \in Figures(description) :
               FigureValue(description, d) = GroupedValue(description, d)
        /\ description = Desc_WideRange => salary = <<1000, 100000000>>
        /\ description = Desc_Ungrouped => salary = <<120, None>>

\* extract_salary has read 120 from "$120000", whose longest grouped prefix
\* is followed by further digits.
C19_Witness ==
    /\ pc = "done"
    /\ description = Desc_Ungrouped
    /\ LET d == NextDollar(description, 0)
           e == LongestGrouped(description, AfterDollar(description, d))
       IN  /\ e = d + 4
           /\ DigitAt(description, e)
    /\ salary = <<120, None>>


-----------------------------------------------------------------------------
(* extract_keywords                                                        *)

\* dict/words, read at import: the lower-cased lines of the word list. The
\* file is not part of the sources; a few of its words stand for it.
dictionary == {
    <<"t","h","e">>, <<"a","n","d">>, <<"u","s","e">>, <<"w","i","t","h">>, <<"e","x","p","e","r","i","e","n","c","e">> }

\* \w for ASCII text
IsWordChar(c) == IsLetter(c) \/ IsDigit(c) \/ c = "_"

\* \b at position i: exactly one of s[i-1], s[i] is a word character.
Boundary(s, i) ==
    (i > 1 /\ i - 1 <= Len(s) /\ IsWordChar(s[i - 1]))
        # (i >= 1 /\ i <= Len(s) /\ IsWordChar(s[i]))

\* The number of consecutive [a-zA-Z] characters from position i.
RECURSIVE LetterRun(_, _)
LetterRun(s, i) ==
    IF i <= Len(s) /\ IsLetter(s[i]) THEN 1 + LetterRun(s, i + 1) ELSE 0

\* \b[a-zA-Z]{3,}\b matched from position i: the position after the match,
\* or 0. The quantifier is greedy and gives characters back until \b holds.
word_at(s, i) ==
    LET n == LetterRun(s, i)
        ks == {k \in 3..n : Boundary(s, i + k)}
    IN  IF Boundary(s, i) /\ ks # {} THEN i + Max(ks) ELSE 0

\* re.findall(pattern, text) scanning from position i: the non-overlapping
\* matches from left to right.
RECURSIVE findall(_, _)
findall(s, i) ==
    IF i > Len(s) THEN <<>>
    ELSE LET e == word_at(s, i)
         IN  IF e # 0
             THEN <<SubSeq(s, i, e - 1)>> \o findall(s, e)
             ELSE findall(s, i + 1)

\* The code point order of the ASCII letters: "A" < ... < "Z" < "a" < ... < "z".
LetterOrder == UpperLetters \o LowerLetters
Ord == [c \in LetterSet |-> CHOOSE i \in DOMAIN LetterOrder : LetterOrder[i] = c]

\* a < b for two str of letters
StrLess(a, b) ==
    \E k \in 1..(Len(a) + 1) :
        /\ k <= Len(b)
        /\ \A m \in 1..(k - 1) : a[m] = b[m]
        /\ k = Len(a) + 1 \/ Ord[a[k]] < Ord[b[k]]

\* The loop over words (main.py:198-203) from index i on, given the values
\* of keyword_dict so far in insertion order: a word is added when its
\* lower-case form is neither in the dictionary nor already a key.
RECURSIVE keyword_loop(_, _, _)
keyword_loop(words, i, kept) ==
    IF i > Len(words) THEN kept
    ELSE LET lower_word == Lower(words[i])
         IN  IF /\ lower_word \notin dictionary
                /\ \A k \in DOMAIN kept : Lower(kept[k]) # lower_word
             THEN keyword_loop(words, i + 1, Append(kept, words[i]))
             ELSE keyword_loop(words, i + 1, kept)

\* The loop without its inner test: a later spelling overwrites the value
\* stored under the same key.
RECURSIVE keyword_loop_Overwrite(_, _, _)
keyword_loop_Overwrite(words, i, kept) ==
    IF i > Len(words) THEN kept
    ELSE LET lower_word == Lower(words[i])
         IN  IF lower_word \in dictionary
             THEN keyword_loop_Overwrite(words, i + 1, kept)
             ELSE IF \E k \in DOMAIN kept : Lower(kept[k]) = lower_word
             THEN keyword_loop_Overwrite(words, i + 1,
                      [k \in DOMAIN kept |->
                          IF Lower(kept[k]) = lower_word THEN words[i] ELSE kept[k]])
             ELSE keyword_loop_Overwrite(words, i + 1, Append(kept, words[i]))

\* sorted(values, key=lambda word: word.lower()): a stable sort, here by
\* insertion of values[i..] into the sorted sequence done.
RECURSIVE sorted_by_lower(_, _, _)
sorted_by_lower(values, i, done) ==
    IF i > Len(values) THEN done
    ELSE LET x == values[i]
             n == Cardinality({k \in DOMAIN done :
                                  ~StrLess(Lower(x), Lower(done[k]))})
         IN  sorted_by_lower(values, i + 1,
                 SubSeq(done, 1, n) \o <<x>> \o SubSeq(done, n + 1, Len(done)))

extract_keywords_KeepLast(text) ==
    LET words == findall(text, 1)
        keyword_dict == keyword_loop_Overwrite(words, 1, <<>>)
    IN  sorted_by_lower(keyword_dict, 1, <<>>)

extract_keywords(text) ==
    LET words == findall(text, 1)
        keyword_dict == keyword_loop(words, 1, <<>>)
    IN  sorted_by_lower(keyword_dict, 1, <<>>)

-----------------------------------------------------------------------------
(* Callers of extract_keywords                                             *)

Desc_Keywords == <<"W","e"," ","u","s","e"," ","K","u","b","e","r","n","e","t","e","s",","," ","P","y","T","o","r","c","h"," ","a","n","d"," ","t","h","e"," ","A","W","S"," ","A","P","I","."," ","k","u","b","e","r","n","e","t","e","s"," ","a","n","d"," ","P","Y","T","O","R","C","H"," ","e","x","p","e","r","i","e","n","c","e">>

KeywordTexts == {Desc_Keywords, Desc_Empty}

KeywordPieces == {
    <<"A","P","I">>, <<"a","p","i">>, <<"S","q","l">>, <<"T","h","e">>, <<"a","b">>, <<"1">>, <<" ">>, <<"_">> }

InitKeywords ==
    /\ pc = "input"
    /\ typed = 0
    /\ location = <<>>
    /\ title = <<>>
    /\ description \in KeywordTexts
    /\ usa = Unset
    /\ salary = Unset
    /\ keywords = Unset
    /\ scored = Unset
    /\ SizeIdle /\ UrlIdle /\ MainIdle

TypeText ==
    /\ pc = "input"
    /\ typed < MaxKeywordTyped
    /\ \E p \in KeywordPieces : description' = description \o p
    /\ typed' = typed + 1
    /\ UNCHANGED <<pc, location, title, usa, salary, keywords, scored>>
    /\ UNCHANGED <<sizeVars, urlVars, mainVars>>

CallExtractKeywords ==
    /\ pc = "input"
    /\ keywords' = extract_keywords(description)
    /\ pc' = "done"
    /\ UNCHANGED <<typed, location, title, description, usa, salary, scored>>
    /\ UNCHANGED <<sizeVars, urlVars, mainVars>>

NextKeywords == TypeText \/ CallExtractKeywords

SpecKeywords == InitKeywords /\ [][NextKeywords]_vars

-----------------------------------------------------------------------------
(* The word-bounded letter runs of a text, stated on positions.            *)

\* s[i..j] is a run of 3 or more ASCII letters with no word character on
\* either side.
LetterWord(s, i, j) ==
    /\ j >= i + 2
    /\ \A k \in i..j : IsLetter(s[k])
    /\ i = 1 \/ ~IsWordChar(s[i - 1])
    /\ j = Len(s) \/ ~IsWordChar(s[j + 1])

LetterWords(s) ==
    LET starts == {i \in 1..Len(s) :
                     IsLetter(s[i]) /\ (i = 1 \/ ~IsWordChar(s[i - 1]))}
        ends == {j \in 1..Len(s) :
                     IsLetter(s[j]) /\ (j = Len(s) \/ ~IsWordChar(s[j + 1]))}
    IN  {ij \in starts \X ends : LetterWord(s, ij[1], ij[2])}

\* The lower-case forms that are not dictionary words.
KeywordForms(s) ==
    {Lower(SubSeq(s, ij[1], ij[2])) : ij \in LetterWords(s)} \ dictionary

\* The spelling of the first run of the text whose lower-case form is f.
FirstSpelling(s, f) ==
    LET runs == {ij \in LetterWords(s) : Lower(SubSeq(s, ij[1], ij[2])) = f}
        first == CHOOSE ij \in runs : \A other \in runs : ij[1] <= other[1]
    IN  SubSeq(s, first[1], first[2])

\* C9: extract_keywords returns exactly one entry per distinct lower-case
\* form among the word-bounded runs of 3 or more letters that are not
\* dictionary words, each spelled as its first occurrence, in ascending
\* order of the lower-case form.
C9_Keywords ==
    pc = "done" =>
        LET forms == KeywordForms(description)
        IN  /\ {Lower(keywords[k]) : k \in DOMAIN keywords} = forms
            /\ Len(keywords) = Cardinality(forms)
            /\ \A k \in DOMAIN keywords :
                  keywords[k] = FirstSpelling(description, Lower(keywords[k]))
            /\ \A k, l \in DOMAIN keywords :
                  k < l => StrLess(Lower(keywords[k]), Lower(keywords[l]))

\* extract_keywords has returned for a text that repeats a form in another
\* spelling, holds dictionary words, and yields several keywords.
C9_Witness ==
    /\ pc = "done"
    /\ description = Desc_Keywords
    /\ \E a, b \in LetterWords(description) :
          /\ a[1] < b[1]
          /\ SubSeq(description, a[1], a[2]) # SubSeq(description, b[1], b[2])
          /\ Lower(SubSeq(description, a[1], a[2])) = Lower(SubSeq(description, b[1], b[2]))
          /\ Lower(SubSeq(description, a[1], a[2])) \notin dictionary
    /\ \E a \in LetterWords(description) :
          Lower(SubSeq(description, a[1], a[2])) \in dictionary
    /\ keywords = <<<<"A","P","I">>, <<"A","W","S">>, <<"K","u","b","e","r","n","e","t","e","s">>, <<"P","y","T","o","r","c","h">>>>

-----------------------------------------------------------------------------
(* score_job                                                               *)

\* preferences, in declaration order (dict iteration order)
preferences == <<
    <<<<"R","e","m","o","t","e">>, 10>>,
    <<<<"P","y","t","h","o","n">>, 10>>,
    <<<<"M","a","c","h","i","n","e"," ","L","e","a","r","n","i","n","g">>, 8>>,
    <<<<"B","a","c","k","e","n","d">>, 8>>,
    <<<<"L","i","n","u","x">>, 9>>,
    <<<<"G","o","l","a","n","g">>, 6>>,
    <<<<"G","o">>, 6>>,
    <<<<"J","a","v","a">>, -10>>,
    <<<<"H","a","s","k","e","l","l">>, -8>>,
    <<<<"i","O","S">>, -7>>,
    <<<<"H","y","b","r","i","d">>, -10>>,
    <<<<"O","n","-","s","i","t","e">>, -10>> >>

\* The pattern without its \b anchors: the escaped keyword anywhere.
keyword_at_NoBoundary(s, i, literal) == LiteralAt(s, i, literal)

\* rf"\b{re.escape(keyword)}\b" with re.IGNORECASE matched from position i.
\* The escaped keyword is a literal; it is passed in lower case and
\* LiteralAt compares it with the lower-cased text.
keyword_at(s, i, literal) ==
    /\ Boundary(s, i)
    /\ LiteralAt(s, i, literal)
    /\ Boundary(s, i + Len(literal))

\* pattern.search(s) is not None
pattern_search(s, keyword) ==
    LET literal == Lower(keyword)
    IN  \E i \in 1..Len(s) : keyword_at(s, i, literal)

\* The loop over preferences.items() from entry i on, given score and
\* preference_hits so far.
RECURSIVE score_loop(_, _, _, _, _)
score_loop(t, d, i, score, preference_hits) ==
    IF i > Len(preferences) THEN <<score, preference_hits>>
    ELSE LET keyword == preferences[i][1]
             value == preferences[i][2]
         IN  IF pattern_search(t, keyword) \/ pattern_search(d, keyword)
             THEN score_loop(t, d, i + 1, score + value,
                             Append(preference_hits, keyword))
             ELSE score_loop(t, d, i + 1, score, preference_hits)

\* The loop with one test per text: a keyword found in title and in
\* description is appended, and its value added, twice.
RECURSIVE score_loop_PerText(_, _, _, _, _)
score_loop_PerText(t, d, i, score, preference_hits) ==
    IF i > Len(preferences) THEN <<score, preference_hits>>
    ELSE LET keyword == preferences[i][1]
             value == preferences[i][2]
             in_t == pattern_search(t, keyword)
             in_d == pattern_search(d, keyword)
             once == IF in_t THEN Append(preference_hits, keyword) ELSE preference_hits
             twice == IF in_d THEN Append(once, keyword) ELSE once
         IN  score_loop_PerText(t, d, i + 1,
                 score + (IF in_t THEN value ELSE 0) + (IF in_d THEN value ELSE 0),
                 twice)

score_job_PerText(t, d) == score_loop_PerText(Lower(t), Lower(d), 1, 0, <<>>)

score_job(t, d) == score_loop(Lower(t), Lower(d), 1, 0, <<>>)

-----------------------------------------------------------------------------
(* Callers of score_job                                                    *)

Title_JavaScript == <<"J","a","v","a","S","c","r","i","p","t"," ","D","e","v","e","l","o","p","e","r">>
Desc_JavaScript == <<"W","e"," ","u","s","e"," ","J","a","v","a","S","c","r","i","p","t"," ","a","n","d"," ","G","o","l","a","n","g",".">>
Title_Backend == <<"B","a","c","k","e","n","d"," ","E","n","g","i","n","e","e","r"," ","(","R","e","m","o","t","e",")">>
Desc_Backend == <<"P","y","t","h","o","n",","," ","G","o"," ","a","n","d"," ","J","a","v","a"," ","o","n"," ","L","i","n","u","x","."," ","H","y","b","r","i","d"," ","o","r"," ","o","n","-","s","i","t","e","."," ","P","y","t","h","o","n"," ","i","s"," ","a"," ","p","l","u","s",".">>

Title_Both == <<"P","y","t","h","o","n"," ","B","a","c","k","e","n","d"," ","E","n","g","i","n","e","e","r"," ","-"," ","R","e","m","o","t","e">>
Desc_Both == <<"R","e","m","o","t","e"," ","r","o","l","e","."," ","P","y","t","h","o","n"," ","b","a","c","k","e","n","d",","," ","m","o","r","e"," ","P","y","t","h","o","n","."," ","N","o"," ","i","O","S",".">>

ScoreInputs == {
    <<Title_JavaScript, Desc_JavaScript>>,
    <<Title_Backend, Desc_Backend>>,
    <<Title_Both, Desc_Both>>,
    <<Desc_Empty, Desc_Empty>> }

ScorePieces == {
    <<"J","a","v","a">>, <<"S","c","r","i","p","t">>, <<"g","o">>, <<"l","a","n","g">>, <<" ">>, <<"_">> }

InitScore ==
    /\ pc = "input"
    /\ typed = 0
    /\ location = <<>>
    /\ \E input \in ScoreInputs : title = input[1] /\ description = input[2]
    /\ usa = Unset
    /\ salary = Unset
    /\ keywords = Unset
    /\ scored = Unset
    /\ SizeIdle /\ UrlIdle /\ MainIdle

TypeTitle ==
    /\ pc = "input"
    /\ typed < MaxScoreTyped
    /\ \E p \in ScorePieces : title' = title \o p
    /\ typed' = typed + 1
    /\ UNCHANGED <<pc, location, description, usa, salary, keywords, scored>>
    /\ UNCHANGED <<sizeVars, urlVars, mainVars>>

TypeJobDescription ==
    /\ pc = "input"
    /\ typed < MaxScoreTyped
    /\ \E p \in ScorePieces : description' = description \o p
    /\ typed' = typed + 1
    /\ UNCHANGED <<pc, location, title, usa, salary, keywords, scored>>
    /\ UNCHANGED <<sizeVars, urlVars, mainVars>>

CallScoreJob ==
    /\ pc = "input"
    /\ scored' = score_job(title, description)
    /\ pc' = "done"
    /\ UNCHANGED <<typed, location, title, description, usa, salary, keywords>>
    /\ UNCHANGED <<sizeVars, urlVars, mainVars>>

NextScore == TypeTitle \/ TypeJobDescription \/ CallScoreJob

SpecScore == InitScore /\ [][NextScore]_vars

-----------------------------------------------------------------------------
(* Occurrences of a preference phrase, stated on positions.                *)

Phrases == {preferences[i][1] : i \in DOMAIN preferences}

\* The positions of s where the phrase stands, in any case.
Occurrences(s, phrase) ==
    LET literal == Lower(phrase)
    IN  {i \in 1..Len(s) : LiteralAt(s, i, literal)}

\* The occurrence at position i is a proper part of a longer word: a word
\* character stands directly before or directly after it.
PartOfLongerWord(s, i, phrase) ==
    \/ i > 1 /\ IsWordChar(s[i - 1])
    \/ i + Len(phrase) <= Len(s) /\ IsWordChar(s[i + Len(phrase)])

\* The phrase occurs in s, and only inside longer words.
OnlyInsideWords(s, phrase) ==
    \A i \in Occurrences(s, phrase) : PartOfLongerWord(s, i, phrase)

\* The phrase stands in s as a whole word.
WholeWordIn(s, phrase) ==
    \E i \in Occurrences(s, phrase) : ~PartOfLongerWord(s, i, phrase)

\* The sum of the weights of the entries i.. of preferences whose phrase
\* stands as a whole word in t or d.
RECURSIVE WholeWordScore(_, _, _)
WholeWordScore(t, d, i) ==
    IF i > Len(preferences) THEN 0
    ELSE (IF WholeWordIn(t, preferences[i][1]) \/ WholeWordIn(d, preferences[i][1])
          THEN preferences[i][2] ELSE 0)
         + WholeWordScore(t, d, i + 1)

\* C10: a phrase that occurs in title and description only as a proper part
\* of a longer word, in any case, is not among the hits and adds nothing to
\* the score, which is the sum of the weights of the whole-word phrases.
C10_WholeWordsOnly ==
    pc = "done" =>
        /\ \A phrase \in Phrases :
              ( /\ Occurrences(title, phrase) \cup Occurrences(description, phrase) # {}
                /\ OnlyInsideWords(title, phrase)
                /\ OnlyInsideWords(description, phrase) )
              => \A k \in DOMAIN scored[2] : scored[2][k] # phrase
        /\ scored[1] = WholeWordScore(title, description, 1)

\* score_job has returned for "JavaScript" and "Golang": "Java" and "Go"
\* occur only inside those words and only "Golang" is a hit.
C10_Witness ==
    /\ pc = "done"
    /\ title = Title_JavaScript
    /\ description = Desc_JavaScript
    /\ Occurrences(title, <<"J","a","v","a">>) # {} /\ OnlyInsideWords(title, <<"J","a","v","a">>)
    /\ Occurrences(description, <<"G","o">>) # {} /\ OnlyInsideWords(description, <<"G","o">>)
    /\ scored = <<6, <<<<"G","o","l","a","n","g">>>>>>

\* The phrases of preferences[i..], in declaration order, that stand as a
\* whole word in t or d.
RECURSIVE MatchingPhrases(_, _, _)
MatchingPhrases(t, d, i) ==
    IF i > Len(preferences) THEN <<>>
    ELSE (IF WholeWordIn(t, preferences[i][1]) \/ WholeWordIn(d, preferences[i][1])
          THEN <<preferences[i][1]>> ELSE <<>>)
         \o MatchingPhrases(t, d, i + 1)

\* The weight the table gives a phrase.
WeightOf(phrase) ==
    preferences[CHOOSE i \in DOMAIN preferences : preferences[i][1] = phrase][2]

RECURSIVE SumOfWeights(_)
SumOfWeights(hits) ==
    IF hits = <<>> THEN 0 ELSE WeightOf(Head(hits)) + SumOfWeights(Tail(hits))

\* C11: the score is the sum of the weights of exactly the phrases in the
\* hit list; the hit list holds each matching phrase once, however often
\* and in whichever of title and description it occurs, in the declaration
\* order of preferences; with no match the result is (0, []).
C11_ScoreIsSumOfHits ==
    pc = "done" =>
        /\ scored[2] = MatchingPhrases(title, description, 1)
        /\ scored[1] = SumOfWeights(scored[2])
        /\ \A k, l \in DOMAIN scored[2] : k # l => scored[2][k] # scored[2][l]
        /\ scored[2] = <<>> => scored[1] = 0

\* score_job has returned for a title and a description that share
\* phrases, one of them repeated in the description.
C11_Witness ==
    /\ pc = "done"
    /\ title = Title_Both
    /\ description = Desc_Both
    /\ WholeWordIn(title, <<"P","y","t","h","o","n">>)
    /\ Cardinality({i \in Occurrences(description, <<"P","y","t","h","o","n">>) :
                       ~PartOfLongerWord(description, i, <<"P","y","t","h","o","n">>)}) = 2
    /\ scored = <<21, <<<<"R","e","m","o","t","e">>, <<"P","y","t","h","o","n">>, <<"B","a","c","k","e","n","d">>, <<"i","O","S">>>>>>

-----------------------------------------------------------------------------
(* parse_company_size (main.py:450-477)                                    *)

\* Number of pieces a caller may append to the text before calling
\* parse_company_size.
MaxSizeTyped == 3

\* w stands at 1-based position i of s, letter case included (a literal of
\* a pattern compiled without flags, or the needle of str.replace / in).
ExactAt(s, i, w) ==
    /\ i >= 1
    /\ i + Len(w) - 1 <= Len(s)
    /\ \A k \in 1..Len(w) : s[i + k - 1] = w[k]

\* `sub in s`
Contains(s, sub) == \E i \in 1..(Len(s) + 1) : ExactAt(s, i, sub)

\* \d+ at position i: the position after the run of digits, 0 without one.
RECURSIVE digits_run(_, _)
digits_run(s, i) ==
    IF i <= Len(s) /\ IsDigit(s[i]) THEN digits_run(s, i + 1) ELSE i

digits_end(s, i) ==
    IF i <= Len(s) /\ IsDigit(s[i]) THEN digits_run(s, i) ELSE 0

\* [K]? at position i: the position after it.
suffix_end(s, i) == IF ExactAt(s, i, <<"K">>) THEN i + 1 ELSE i

\* \s* at position i: the position after the run of whitespace.
RECURSIVE skip_space(_, _)
skip_space(s, i) ==
    IF i <= Len(s) /\ s[i] \in Whitespace THEN skip_space(s, i + 1) ELSE i

\* re.match(r"(\d+)([K]?)\s*to\s*(\d+)([K]?) Employees", s): the spans
\* <<start of group 1, end of group 1, end of group 2, start of group 3,
\* end of group 3, end of group 4>> (ends exclusive), or <<>>. No part of
\* the pattern can give characters back to the part after it, so the greedy
\* match is the only one.
size_match(s) ==
    LET e1 == digits_end(s, 1)
        k1 == suffix_end(s, e1)
        t1 == skip_space(s, k1)
        s3 == skip_space(s, t1 + 2)
        e3 == digits_end(s, s3)
        k3 == suffix_end(s, e3)
    IN  IF e1 = 0 \/ ~ExactAt(s, t1, <<"t","o">>) THEN <<>>
        ELSE IF e3 = 0 \/ ~ExactAt(s, k3, <<" ","E","m","p","l","o","y","e","e","s">>) THEN <<>>
        ELSE <<1, e1, k1, s3, e3, k3>>

\* str(n) of a non-negative int.
RECURSIVE IntStr(_)
IntStr(n) ==
    IF n < 10 THEN <<Digits[n + 1]>>
    ELSE IntStr(n \div 10) \o <<Digits[(n % 10) + 1]>>

\* s.replace(old, new): every occurrence of old, left to right, without
\* overlap.
RECURSIVE replace_from(_, _, _, _)
replace_from(s, i, old, new) ==
    IF i > Len(s) THEN <<>>
    ELSE IF ExactAt(s, i, old) THEN new \o replace_from(s, i + Len(old), old, new)
    ELSE <<s[i]>> \o replace_from(s, i + 1, old, new)

replace(s, old, new) == replace_from(s, 1, old, new)

\* int(group) * 1000 if suffix == "K" else int(group)
size_number(s, g, e, k) ==
    IF k > e THEN int_group(s, g, e) * 1000 ELSE int_group(s, g, e)

\* A variant that drops the K suffix instead of expanding it.
parse_company_size_DropK(text) ==
    LET match == size_match(text)
    IN  IF match # <<>>
        THEN IntStr(int_group(text, match[1], match[2]))
                 \o <<"-">>
                 \o IntStr(int_group(text, match[4], match[5]))
        ELSE IF /\ Contains(text, <<"E","m","p","l","o","y","e","e","s">>)
                /\ Contains(text, <<"+">>)
        THEN replace(replace(text, <<" ","E","m","p","l","o","y","e","e","s">>, <<>>),
                     <<"K">>, <<>>)
        ELSE text

parse_company_size(text) ==
    LET match == size_match(text)
    IN  IF match # <<>>
        THEN IntStr(size_number(text, match[1], match[2], match[3]))
                 \o <<"-">>
                 \o IntStr(size_number(text, match[4], match[5], match[6]))
        ELSE IF /\ Contains(text, <<"E","m","p","l","o","y","e","e","s">>)
                /\ Contains(text, <<"+">>)
        THEN replace(replace(text, <<" ","E","m","p","l","o","y","e","e","s">>, <<>>),
                     <<"K">>, <<"0","0","0">>)
        ELSE text

\* The texts of src/tests/test_parse_company_size.py, and the empty text.
Size_1to50 == <<"1"," ","t","o"," ","5","0"," ","E","m","p","l","o","y","e","e","s">>
Size_501to1K == <<"5","0","1"," ","t","o"," ","1","K"," ","E","m","p","l","o","y","e","e","s">>
Size_1Kto5K == <<"1","K"," ","t","o"," ","5","K"," ","E","m","p","l","o","y","e","e","s">>
Size_5Kto10K == <<"5","K"," ","t","o"," ","1","0","K"," ","E","m","p","l","o","y","e","e","s">>
Size_10KPlus == <<"1","0","K","+"," ","E","m","p","l","o","y","e","e","s">>
Size_Empty == <<>>

SizeTexts == {Size_1to50, Size_501to1K, Size_1Kto5K, Size_5Kto10K,
              Size_10KPlus, Size_Empty}

\* What the Glassdoor page may hold in the company-size field, in pieces.
SizePieces == {<<"5","0","1"," ","t","o"," ">>, <<"1","K"," ","t","o"," ">>, <<"5","K">>, <<"1","0">>, <<"K","+">>,
               <<" ","E","m","p","l","o","y","e","e","s">>, <<"0","2">>, <<"K","t","o">>}

InitSize ==
    /\ pc = "input"
    /\ typed = 0
    /\ company_size_text \in SizeTexts
    /\ company_size = Unset
    /\ TextIdle /\ UrlIdle /\ MainIdle

TypeSizeText ==
    /\ pc = "input"
    /\ typed < MaxSizeTyped
    /\ \E piece \in SizePieces :
           company_size_text' = company_size_text \o piece
    /\ typed' = typed + 1
    /\ UNCHANGED <<pc, company_size>>
    /\ UNCHANGED <<textVars, urlVars, mainVars>>

CallParseCompanySize ==
    /\ pc = "input"
    /\ company_size' = parse_company_size(company_size_text)
    /\ pc' = "done"
    /\ UNCHANGED <<typed, company_size_text>>
    /\ UNCHANGED <<textVars, urlVars, mainVars>>

NextSize == TypeSizeText \/ CallParseCompanySize

SpecSize == InitSize /\ [][NextSize]_vars

\* s[i..j-1] is a non-empty run of digits.
AllDigits(s, i, j) == i < j /\ \A k \in i..(j - 1) : IsDigit(s[k])

\* The value of "<digits>[K]" standing in s[i..j-1]: the digits' number,
\* times 1000 under a K suffix; -1 when s[i..j-1] has no such form.
SizeFigure(s, i, j) ==
    IF AllDigits(s, i, j) THEN int_group(s, i, j)
    ELSE IF j - 1 > i /\ s[j - 1] = "K" /\ AllDigits(s, i, j - 1)
         THEN int_group(s, i, j - 1) * 1000
    ELSE -1

\* The texts "<a>[K] to <b>[K] Employees": the cut points <<p, q>> with
\* s = s[1..p-1] \o " to " \o s[p+4..q-1] \o " Employees".
SizeRangeCuts(s) ==
    {c \in (1..Len(s)) \X (1..Len(s)) :
        /\ c[1] + 4 < c[2]
        /\ c[2] + 9 = Len(s)
        /\ ExactAt(s, c[1], <<" ","t","o"," ">>)
        /\ ExactAt(s, c[2], <<" ","E","m","p","l","o","y","e","e","s">>)
        /\ SizeFigure(s, 1, c[1]) >= 0
        /\ SizeFigure(s, c[1] + 4, c[2]) >= 0}

\* The texts "<n>K+ Employees".
IsSizeAtLeast(s) ==
    /\ Len(s) > 13
    /\ AllDigits(s, 1, Len(s) - 12)
    /\ ExactAt(s, Len(s) - 12, <<"K","+"," ","E","m","p","l","o","y","e","e","s">>)

-----------------------------------------------------------------------------
(* normalize_url (main.py:116-131)                                         *)

\* Number of pieces a caller may append to the URL before calling
\* normalize_url.
MaxUrlTyped == 3

\* s[i:] of Python, for a 1-based i
From(s, i) == SubSeq(s, i, Len(s))

\* s[:n] of Python
Prefix(s, n) == SubSeq(s, 1, IF n < Len(s) THEN n ELSE Len(s))

\* s.find(c, start): the first position >= start that holds c, 0 without one.
Find(s, c, start) ==
    LET hits == {i \in start..Len(s) : s[i] = c}
    IN  IF hits = {} THEN 0 ELSE CHOOSE i \in hits : \A j \in hits : i <= j

\* s.rfind(c)
RFind(s, c) ==
    LET hits == {i \in 1..Len(s) : s[i] = c}
    IN  IF hits = {} THEN 0 ELSE CHOOSE i \in hits : \A j \in hits : i >= j

\* urllib.parse._WHATWG_C0_CONTROL_OR_SPACE and _UNSAFE_URL_BYTES_TO_REMOVE,
\* for the characters a string of the model can hold
C0ControlOrSpace == {" ", "\t", "\n", "\r", "\f"}
UnsafeUrlBytes == {"\t", "\r", "\n"}

RECURSIVE lstrip_c0(_)
lstrip_c0(s) ==
    IF s # <<>> /\ Head(s) \in C0ControlOrSpace THEN lstrip_c0(Tail(s)) ELSE s

remove_unsafe(s) == SelectSeq(s, LAMBDA c : c \notin UnsafeUrlBytes)

\* urllib.parse.scheme_chars, uses_netloc and uses_params
scheme_chars == LetterSet \cup DigitSet \cup {"+", "-", "."}

uses_netloc == {<<>>, <<"f","t","p">>, <<"h","t","t","p">>, <<"g","o","p","h","e","r">>, <<"n","n","t","p">>,
                <<"t","e","l","n","e","t">>, <<"i","m","a","p">>, <<"w","a","i","s">>, <<"f","i","l","e">>, <<"m","m","s">>,
                <<"h","t","t","p","s">>, <<"s","h","t","t","p">>, <<"s","n","e","w","s">>, <<"p","r","o","s","p","e","r","o">>,
                <<"r","t","s","p">>, <<"r","t","s","p","s">>, <<"r","t","s","p","u">>, <<"r","s","y","n","c">>, <<"s","v","n">>,
                <<"s","v","n","+","s","s","h">>, <<"s","f","t","p">>, <<"n","f","s">>, <<"g","i","t">>, <<"g","i","t","+","s","s","h">>,
                <<"w","s">>, <<"w","s","s">>}

uses_params == {<<>>, <<"f","t","p">>, <<"h","d","l">>, <<"p","r","o","s","p","e","r","o">>, <<"h","t","t","p">>,
                <<"i","m","a","p">>, <<"h","t","t","p","s">>, <<"s","h","t","t","p">>, <<"r","t","s","p">>, <<"r","t","s","p","s">>,
                <<"r","t","s","p","u">>, <<"s","i","p">>, <<"s","i","p","s">>, <<"m","m","s">>, <<"s","f","t","p">>,
                <<"t","e","l">>}

\* The scheme test of urlsplit: the position of the first ':' when the text
\* before it is a letter followed by scheme characters, 0 otherwise.
scheme_end(s) ==
    LET i == Find(s, ":", 1)
    IN  IF /\ i > 1
           /\ IsLetter(s[1])
           /\ \A k \in 1..(i - 1) : s[k] \in scheme_chars
        THEN i ELSE 0

\* urllib.parse._splitnetloc(url, 2): the position of the first of / ? #
\* from the third character on, len(url) + 1 without one.
netloc_end(s) ==
    LET hits == {i \in 3..Len(s) : s[i] \in {"/", "?", "#"}}
    IN  IF hits = {} THEN Len(s) + 1
        ELSE CHOOSE i \in hits : \A j \in hits : i <= j

\* The element of a set of one element. A name bound in {e : x \in {v}}
\* holds the value of v, computed once.
Only(S) == CHOOSE x \in S : TRUE

\* The end of urlsplit: fragment and query are cut from what follows the
\* netloc.
urlsplit_path(scheme, netloc, url3) ==
    LET h == Find(url3, "#", 1)
        fragment == IF h > 0 THEN From(url3, h + 1) ELSE <<>>
        url4 == IF h > 0 THEN SubSeq(url3, 1, h - 1) ELSE url3
        q == Find(url4, "?", 1)
        query == IF q > 0 THEN From(url4, q + 1) ELSE <<>>
        path == IF q > 0 THEN SubSeq(url4, 1, q - 1) ELSE url4
    IN  <<scheme, netloc, path, query, fragment>>

\* The middle of urlsplit: the netloc of what follows the scheme.
urlsplit_netloc(scheme, url2) ==
    LET slashes == Prefix(url2, 2) = <<"/", "/">>
        delim == netloc_end(url2)
    IN  Only({urlsplit_path(scheme, netloc, url3) :
                 netloc \in {IF slashes THEN SubSeq(url2, 3, delim - 1)
                             ELSE <<>>},
                 url3 \in {IF slashes THEN From(url2, delim) ELSE url2}})

\* urllib.parse.urlsplit(url): <<scheme, netloc, path, query, fragment>>.
\* Strings of the model hold no '[' or ']' and no non-ASCII character, so
\* the ValueError branches are not taken.
urlsplit(url0) ==
    Only({LET i == scheme_end(url1)
          IN  Only({urlsplit_netloc(scheme, url2) :
                       scheme \in {IF i > 0 THEN Lower(SubSeq(url1, 1, i - 1))
                                   ELSE <<>>},
                       url2 \in {IF i > 0 THEN From(url1, i + 1) ELSE url1}})
          : url1 \in {remove_unsafe(lstrip_c0(url0))}})

\* urllib.parse._splitparams(url): <<url, params>>
splitparams(path) ==
    LET slash == RFind(path, "/")
        i == IF slash > 0 THEN Find(path, ";", slash) ELSE Find(path, ";", 1)
    IN  IF i = 0 THEN <<path, <<>>>>
        ELSE <<SubSeq(path, 1, i - 1), From(path, i + 1)>>

\* urllib.parse.urlparse(url):
\* <<scheme, netloc, path, params, query, fragment>>
urlparse(url0) ==
    Only({LET parts == IF split[1] \in uses_params
                           /\ Find(split[3], ";", 1) > 0
                       THEN splitparams(split[3])
                       ELSE <<split[3], <<>>>>
          IN  <<split[1], split[2], parts[1], parts[2], split[4], split[5]>>
          : split \in {urlsplit(url0)}})

\* urllib.parse.urlunsplit((scheme, netloc, url, query, fragment))
urlunsplit(scheme, netloc, path, query, fragment) ==
    LET url1 == IF \/ netloc # <<>>
                   \/ /\ scheme # <<>>
                      /\ scheme \in uses_netloc
                      /\ Prefix(path, 2) # <<"/", "/">>
                THEN <<"/", "/">> \o netloc
                         \o (IF path # <<>> /\ path[1] # "/"
                             THEN <<"/">> \o path ELSE path)
                ELSE path
        url2 == IF scheme # <<>> THEN scheme \o <<":">> \o url1 ELSE url1
        url3 == IF query # <<>> THEN url2 \o <<"?">> \o query ELSE url2
    IN  IF fragment # <<>> THEN url3 \o <<"#">> \o fragment ELSE url3

\* urllib.parse.urlunparse(components)
urlunparse(parsed) ==
    Only({urlunsplit(p[1], p[2],
                     IF p[4] # <<>> THEN p[3] \o <<";">> \o p[4] ELSE p[3],
                     p[5], p[6])
          : p \in {parsed}})

\* re.sub(r"/apply$", new, s0): $ matches at the end of the string and
\* before a newline that ends it.
sub_apply(s0, new) ==
    Only({LET n == Len(s)
          IN  IF ExactAt(s, n - 5, <<"/","a","p","p","l","y">>)
              THEN SubSeq(s, 1, n - 6) \o new
              ELSE IF n > 0 /\ s[n] = "\n" /\ ExactAt(s, n - 6, <<"/","a","p","p","l","y">>)
              THEN SubSeq(s, 1, n - 7) \o new \o <<"\n">>
              ELSE s
          : s \in {s0}})

\* A variant that removes a trailing "/apply" together with its slash.
normalize_url_DropApply(url0) ==
    Only({sub_apply(urlunparse([parsed EXCEPT ![5] = <<>>]), <<>>)
          : parsed \in {urlparse(url0)}})

normalize_url(url0) ==
    Only({sub_apply(urlunparse([parsed EXCEPT ![5] = <<>>]), <<"/">>)
          : parsed \in {urlparse(url0)}})

\* The URLs of src/tests/test_normalize_url.py, and the empty string.
Url_Lever == <<"h","t","t","p","s",":","/","/","j","o","b","s",".","l","e","v","e","r",".","c","o","/","s","a","r","w","a","/","f","1","4","4","7","0","8","c","-","6","1","d","4","-","4","c","2","9","-","a","f","d","8","-","4","9","e","8","c","4","6","c","0","e","9","0">>
Url_Greenhouse == <<"h","t","t","p","s",":","/","/","j","o","b","-","b","o","a","r","d","s",".","g","r","e","e","n","h","o","u","s","e",".","i","o","/","t","e","g","n","a","i","n","c","/","j","o","b","s","/","4","4","4","3","4","6","9","0","0","7">>
Url_Long == <<"h","t","t","p","s",":","/","/","b","o","a","r","d","s",".","g","r","e","e","n","h","o","u","s","e",".","i","o","/","r","e","m","o","t","e","c","o","m","/","j","o","b","s","/","6","0","9","3","8","8","0","0","0","3","?","u","t","m","_","s","o","u","r","c","e","=","L","o","g","o","s","+","L","a","b","s","+","j","o","b","+","b","o","a","r","d","&","u","t","m","_","m","e","d","i","u","m","=","g","e","t","r","o",".","c","o","m","&","g","h","_","s","r","c","=","L","o","g","o","s","+","L","a","b","s","+","j","o","b","+","b","o","a","r","d">>
Url_Empty == <<>>

TestUrls == {Url_Lever, Url_Greenhouse, Url_Long, Url_Empty}

\* Pieces of the strings normalize_url may be given.
UrlPieces == {<<"h","t","t","p","s",":","/","/","a",".","c","o">>, <<"H","T","T","P",":">>, <<"a","p","p",":">>, <<"/","/">>, <<"/","j","o","b","s">>,
              <<"/","a","p","p","l","y">>, <<"a","p","p","l","y">>, <<"?","u","t","m","=","1">>, <<"#","t","o","p">>, <<";","v","=","1">>}

InitUrl ==
    /\ pc = "input"
    /\ typed = 0
    /\ url \in TestUrls
    /\ normalized = Unset
    /\ TextIdle /\ SizeIdle /\ MainIdle

TypeUrl ==
    /\ pc = "input"
    /\ typed < MaxUrlTyped
    /\ \E piece \in UrlPieces : url' = url \o piece
    /\ typed' = typed + 1
    /\ UNCHANGED <<pc, normalized>>
    /\ UNCHANGED <<textVars, sizeVars, mainVars>>

CallNormalizeUrl ==
    /\ pc = "input"
    /\ normalized' = normalize_url(url)
    /\ pc' = "done"
    /\ UNCHANGED <<typed, url>>
    /\ UNCHANGED <<textVars, sizeVars, mainVars>>

NextUrl == TypeUrl \/ CallNormalizeUrl

SpecUrl == InitUrl /\ [][NextUrl]_vars

\* The URL has the scheme http or https and names a host, as every link of
\* a search result.
IsWebUrl(u) ==
    /\ urlparse(u)[1] \in {<<"h","t","t","p">>, <<"h","t","t","p","s">>}
    /\ urlparse(u)[2] # <<>>

\* C13: normalize_url removes the query string, and normalizing the
\* normalized URL of an http(s) URL with a host (the links google_search
\* receives) returns it unchanged:
\* normalize_url(normalize_url(u)) = normalize_url(u).
C13_FixedPointOfWebUrl ==
    pc = "done" =>
        /\ urlparse(normalized)[5] = <<>>
        /\ IsWebUrl(url) => normalize_url(normalized) = normalized

\* An http(s) URL with an /apply suffix and a query has been normalized.
C13_Witness ==
    /\ pc = "done"
    /\ url = Url_Lever \o <<"/","a","p","p","l","y","?","u","t","m","=","1">>
    /\ IsWebUrl(url)
    /\ urlparse(url)[5] = <<"u","t","m","=","1">>
    /\ normalized = Url_Lever \o <<"/">>

\* C13 as stated, for every string u:
\* normalize_url(normalize_url(u)) = normalize_url(u).
C13_FixedPoint ==
    pc = "done" =>
        /\ urlparse(normalized)[5] = <<>>
        /\ normalize_url(normalized) = normalized

-----------------------------------------------------------------------------
(* __main__ (main.py:730-815) with google_search, extract_job_info and     *)
(* the files job_results.csv and glassdoor_data.csv                        *)

\* Number of links google_search may return in one run, and number of runs
\* of the script.
MaxResults == 2
MaxRuns == 2

\* Python's None where a str may stand. It is no string of characters, so
\* it differs from every str, the empty one included.
NoneValue == <<"None">>

\* `not v` for an Optional[str]
Falsy(v) == v = NoneValue \/ v = <<>>

\* csv.DictWriter writes None as the empty field.
CsvCell(v) == IF v = NoneValue THEN <<>> ELSE v

\* s.find(sub): the first position where sub stands, 0 without one.
FindSub(s, sub) ==
    LET hits == {i \in 1..Len(s) : ExactAt(s, i, sub)}
    IN  IF hits = {} THEN 0 ELSE Min(hits)

\* text.replace("\xa0", " "), re.sub(r"\n+", "\n", text), then every line
\* stripped and the lines joined by "\n". The strings of the model hold no
\* "\xa0" and no line boundary other than "\n".
RECURSIVE squeeze_newlines(_)
squeeze_newlines(s) ==
    IF Len(s) < 2 THEN s
    ELSE IF s[1] = "\n" /\ s[2] = "\n" THEN squeeze_newlines(Tail(s))
    ELSE <<s[1]>> \o squeeze_newlines(Tail(s))

\* "\n".join(line.strip() for line in text.splitlines())
RECURSIVE strip_lines(_)
strip_lines(s) ==
    LET n == Find(s, "\n", 1)
    IN  IF n = 0 THEN Strip(s)
        ELSE IF n = Len(s) THEN Strip(SubSeq(s, 1, n - 1))
        ELSE Strip(SubSeq(s, 1, n - 1)) \o <<"\n">> \o strip_lines(From(s, n + 1))

clean_text(text) == strip_lines(squeeze_newlines(text))

\* What a GET of a posting may bring: a failed request, a status code, the
\* text of the <title> element, group 1 of the job_post_location pattern in
\* the page source, and the text of the divs the function looks for
\* (NoneValue for what the page lacks).
Page(page_title, post_location, location_text, description_text) ==
    [request_failed |-> FALSE, status_code |-> 200, title |-> page_title,
     job_post_location |-> post_location,
     location_div |-> location_text,
     posting_category |-> location_text,
     job_description_body |-> description_text,
     content_div |-> description_text,
     job_description |-> description_text]

Title_Lever == <<"A","c","m","e"," ","-"," ","E","n","g","i","n","e","e","r">>
Title_Greenhouse == <<" ","J","o","b"," ","A","p","p","l","i","c","a","t","i","o","n"," ","f","o","r"," ","E","n","g","i","n","e","e","r"," ","a","t"," ","A","C","M","E"," ">>
Title_Other == <<"C","a","r","e","e","r","s">>
Text_Description == <<"P","y","t","h","o","n"," ","b","a","c","k","e","n","d",".","\n","\n"," ","S","a","l","a","r","y",":"," ","$","9","0",",","0","0","0"," ">>
Text_Blank == <<" ">>

Page_Lever == Page(Title_Lever, NoneValue, Loc_Remote, Text_Description)
Page_LeverPartial == Page(Title_Lever, NoneValue, NoneValue, NoneValue)
Page_Greenhouse ==
    Page(Title_Greenhouse, Loc_Germany, NoneValue, Text_Description)
Page_GreenhouseFallback ==
    Page(Title_Greenhouse, NoneValue, Loc_Remote, Text_Blank)
Page_GreenhouseTitleOnly ==
    Page(Title_Greenhouse, NoneValue, NoneValue, NoneValue)
Page_Untitled == Page(Title_Other, NoneValue, Loc_Remote, Text_Description)
Page_Blank == Page(NoneValue, NoneValue, NoneValue, NoneValue)
Page_NotFound == [Page_Blank EXCEPT !.status_code = 404]
Page_Failed == [Page_Blank EXCEPT !.request_failed = TRUE]

Pages == {Page_Lever, Page_LeverPartial, Page_Greenhouse,
          Page_GreenhouseFallback, Page_GreenhouseTitleOnly, Page_Untitled,
          Page_Blank, Page_NotFound, Page_Failed}

\* re.match(r"Job Application for (.+) at (.+)", full_title): the two
\* groups. The first group is greedy, so it ends at the last " at " that
\* leaves a non-empty second group.
greenhouse_title(full_title) ==
    LET prefix == <<"J","o","b"," ","A","p","p","l","i","c","a","t","i","o","n"," ","f","o","r"," ">>
        n == Len(prefix)
        ats == {k \in (n + 2)..(Len(full_title) - 4) :
                   ExactAt(full_title, k, <<" ","a","t"," ">>)}
    IN  IF ~ExactAt(full_title, 1, prefix) \/ ats = {} THEN <<>>
        ELSE <<SubSeq(full_title, n + 1, Max(ats) - 1),
               From(full_title, Max(ats) + 4)>>

\* full_title.split(" - ", 1)
lever_title(full_title) ==
    LET i == FindSub(full_title, <<" ","-"," ">>)
    IN  IF i = 0 THEN <<full_title>>
        ELSE <<SubSeq(full_title, 1, i - 1), From(full_title, i + 3)>>

\* The value extract_job_info returns for None.
NoInfo ==
    [job_title |-> NoneValue, company_name |-> NoneValue,
     location |-> NoneValue, description |-> NoneValue, url |-> NoneValue]

\* div.get_text cleaned, or what the field held when the div is missing.
div_text(div, otherwise) ==
    IF div = NoneValue THEN otherwise ELSE clean_text(div)

extract_job_info(u, page) ==
    LET job_info == [job_title |-> NoneValue, company_name |-> NoneValue,
                     location |-> NoneValue, description |-> NoneValue,
                     url |-> normalize_url(u)]
        full_title == IF page.title = NoneValue THEN NoneValue
                      ELSE Strip(page.title)
        match == greenhouse_title(full_title)
        parts == lever_title(full_title)
        titled ==
            IF Falsy(full_title) THEN job_info
            ELSE IF Contains(u, <<"g","r","e","e","n","h","o","u","s","e">>)
            THEN IF match # <<>>
                 THEN [job_info EXCEPT !.job_title = Strip(match[1]),
                                       !.company_name = Strip(match[2])]
                 ELSE job_info
            ELSE IF Contains(u, <<"l","e","v","e","r">>) /\ Len(parts) = 2
            THEN [job_info EXCEPT !.company_name = Strip(parts[1]),
                                  !.job_title = Strip(parts[2])]
            ELSE job_info
    IN  IF page.request_failed THEN NoInfo
        ELSE IF page.status_code # 200 THEN job_info
        ELSE IF Contains(u, <<"g","r","e","e","n","h","o","u","s","e">>)
        THEN IF page.job_post_location # NoneValue
             THEN [titled EXCEPT
                      !.location = page.job_post_location,
                      !.description = div_text(page.job_description_body, @)]
             ELSE IF page.location_div = NoneValue
             THEN IF Falsy(titled.company_name) \/ Falsy(titled.job_title)
                  THEN NoInfo
                  ELSE titled
             ELSE [titled EXCEPT
                      !.location = Strip(page.location_div),
                      !.description = div_text(page.content_div, @)]
        ELSE IF Contains(u, <<"l","e","v","e","r">>)
        THEN [titled EXCEPT
                 !.location = IF page.posting_category = NoneValue THEN @
                              ELSE Strip(page.posting_category),
                 !.description = div_text(page.job_description, @)]
        ELSE titled

\* The links the search may return: a Lever posting, the same posting
\* with a tracking query, and a Greenhouse posting.
Link_Lever == <<"h","t","t","p","s",":","/","/","l","e","v","e","r",".","c","o","/","1">>
Link_LeverTracked == <<"h","t","t","p","s",":","/","/","l","e","v","e","r",".","c","o","/","1","?","s","=","g">>
Link_Greenhouse == <<"h","t","t","p","s",":","/","/","g","r","e","e","n","h","o","u","s","e",".","i","o","/","2">>

SearchLinks == {Link_Lever, Link_LeverTracked, Link_Greenhouse}

\* normalize_url and extract_job_info are pure: their values on the links
\* of the model and on the pages, computed once. A URL passes through
\* normalize_url in google_search, in the loop and in extract_job_info.
NormalizedOnce == {normalize_url(link) : link \in SearchLinks}
NormalizedTwice == {normalize_url(u) : u \in NormalizedOnce}

normalize_url_of ==
    [u \in SearchLinks \cup NormalizedOnce |-> normalize_url(u)]

extract_job_info_of ==
    [u \in NormalizedTwice |->
        [page \in Pages |-> extract_job_info(u, page)]]

\* google_search(query) for the links the API returns, in order.
google_search(links) == [i \in DOMAIN links |-> normalize_url_of[links[i]]]

\* load_existing_urls(): the url column of job_results.csv
load_existing_urls == {job_results[i].url : i \in DOMAIN job_results}

\* The value get_glassdoor_data returns for None.
NoRow == [company_name |-> NoneValue, rating |-> "None"]

\* get_glassdoor_data that compares the names as they are spelled.
get_glassdoor_data_CaseSensitive(company_name) ==
    LET hits == {i \in DOMAIN glassdoor_csv :
                    glassdoor_csv[i].company_name = company_name}
    IN  IF hits = {} THEN NoRow ELSE glassdoor_csv[Min(hits)]

\* get_glassdoor_data(company_name): the first row of glassdoor_data.csv
\* whose company_name equals the name when both are lowercased.
get_glassdoor_data(company_name) ==
    LET hits == {i \in DOMAIN glassdoor_csv :
                    Lower(glassdoor_csv[i].company_name) = Lower(company_name)}
    IN  IF hits = {} THEN NoRow ELSE glassdoor_csv[Min(hits)]

\* What scrape_glassdoor_data may do: return the data it found, return an
\* error result, or raise (the driver cannot be created or the page cannot
\* be loaded), which ends the script.
ScrapeOutcomes == {"data", "error", "raised"}

\* The row save_glassdoor_data_to_csv appends for a scrape result.
glassdoor_row(company_name, outcome) ==
    [company_name |-> company_name,
     rating |-> IF outcome = "data" THEN "4.2" ELSE "N/A"]

\* The branch the loop body takes for a job_info with a company name;
\* this variant has no location filter.
loop_branch_NoFilter(job_info) ==
    IF Falsy(job_info.location) THEN "saved without location"
    ELSE IF Falsy(job_info.description) THEN "saved without description"
    ELSE "saved"

loop_branch(job_info) ==
    IF Falsy(job_info.location) THEN "saved without location"
    ELSE IF ~in_usa(job_info.location) THEN "skipped"
    ELSE IF Falsy(job_info.description) THEN "saved without description"
    ELSE "saved"

\* What the last branch of the loop computes from the job description:
\* score_job, extract_salary and extract_keywords.
assess(job_info) ==
    [score |-> score_job(job_info.job_title, job_info.description),
     salary |-> extract_salary(job_info.description),
     keywords |-> extract_keywords(job_info.description)]

\* The columns of a job that is saved before the last branch.
NotAssessed == [score |-> <<>>, salary |-> <<>>, keywords |-> <<>>]

\* The job_infos of the model, with the company name as extracted or as
\* spelled in a cached row of the rating data.
FoundJobInfos ==
    {extract_job_info_of[u][page] : u \in NormalizedTwice, page \in Pages}
        \ {NoInfo}

JobInfos ==
    UNION {{[job_info EXCEPT !.company_name = found.company_name] :
               job_info \in all, found \in all}
           : all \in {FoundJobInfos}}

\* The pure steps of the loop on the job_infos of the model, computed once:
\* the branch taken and the columns computed in it.
loop_steps_of ==
    [job_info \in JobInfos |->
        Only({[branch |-> branch,
               columns |-> IF branch = "saved" THEN assess(job_info)
                           ELSE NotAssessed]
              : branch \in {loop_branch(job_info)}})]

\* The row save_to_csv appends: the columns the job_info has a value for,
\* with the time stamp date_first_seen counted in runs. rating is the
\* column job_info.update took from the rating data.
job_row(job_info, rating, columns) ==
    [company_name |-> CsvCell(job_info.company_name),
     job_title |-> CsvCell(job_info.job_title),
     date_first_seen |-> run_count,
     location |-> CsvCell(job_info.location),
     url |-> CsvCell(job_info.url),
     rating |-> rating,
     score |-> columns.score,
     salary |-> columns.salary,
     keywords |-> columns.keywords]

InitMain ==
    /\ pc = "idle"
    /\ typed = 0
    /\ TextIdle /\ SizeIdle /\ UrlIdle /\ MainIdle

\* The script starts: google_search and load_existing_urls.
StartRun ==
    /\ pc = "idle"
    /\ run_count < MaxRuns
    /\ \E n \in 0..MaxResults : \E links \in [1..n -> SearchLinks] :
           results' = google_search(links)
    /\ idx' = 1
    /\ existing_urls' = load_existing_urls
    /\ fetched' = <<>>
    /\ run_count' = run_count + 1
    /\ pc' = "loop"
    /\ UNCHANGED <<typed, job_results, glassdoor_csv, scrape_log>>
    /\ UNCHANGED <<textVars, sizeVars, urlVars>>

\* The record of an iteration that called extract_job_info(u): what it
\* returned, how the rating data were obtained ("none" when the job was
\* skipped before, "cached", or the outcome of the scrape) and whether
\* save_to_csv was called.
Fetched(u, job_info, lookup, saved) ==
    <<[url |-> u, job_info |-> job_info, lookup |-> lookup, saved |-> saved]>>

\* The rest of an iteration once the rating data are in job_info:
\* the location filter and save_to_csv.
FinishJob(u, found, lookup, job_info, rating) ==
    \E steps \in {loop_steps_of[job_info]} :
        /\ idx' = idx + 1
        /\ pc' = pc
        /\ fetched' = Fetched(u, found, lookup, steps.branch # "skipped")
        /\ job_results' =
               IF steps.branch # "skipped"
               THEN Append(job_results,
                           job_row(job_info, rating, steps.columns))
               ELSE job_results

\* One iteration of the loop over results.
ProcessUrl ==
    /\ pc = "loop"
    /\ idx <= Len(results)
    /\ \E u \in {normalize_url_of[results[idx]]} :
           IF u \in existing_urls
           THEN /\ idx' = idx + 1
                /\ UNCHANGED <<pc, job_results, glassdoor_csv, scrape_log,
                               fetched>>
           ELSE \E page \in Pages :
                \E job_info \in {extract_job_info_of[u][page]} :
                    IF job_info = NoInfo \/ Falsy(job_info.company_name)
                    THEN /\ fetched' = Fetched(u, job_info, "none", FALSE)
                         /\ idx' = idx + 1
                         /\ UNCHANGED <<pc, job_results, glassdoor_csv,
                                        scrape_log>>
                    ELSE \E cached \in
                                {get_glassdoor_data(job_info.company_name)} :
                         \E lookup \in IF cached # NoRow THEN {"cached"}
                                       ELSE ScrapeOutcomes :
                             IF lookup = "raised"
                             THEN /\ fetched' =
                                      Fetched(u, job_info, lookup, FALSE)
                                  /\ pc' = "idle"
                                  /\ UNCHANGED <<idx, job_results,
                                                 glassdoor_csv, scrape_log>>
                             ELSE IF lookup = "cached"
                             THEN /\ UNCHANGED <<glassdoor_csv, scrape_log>>
                                  /\ FinishJob(u, job_info, lookup,
                                         [job_info EXCEPT !.company_name =
                                              cached.company_name],
                                         cached.rating)
                             ELSE /\ glassdoor_csv' =
                                      Append(glassdoor_csv,
                                             glassdoor_row(
                                                 job_info.company_name,
                                                 lookup))
                                  /\ scrape_log' =
                                      Append(scrape_log,
                                             job_info.company_name)
                                  /\ FinishJob(u, job_info, lookup, job_info,
                                         IF lookup = "data" THEN "4.2"
                                         ELSE "")
    /\ UNCHANGED <<typed, results, existing_urls, run_count>>
    /\ UNCHANGED <<textVars, sizeVars, urlVars>>

\* The loop is through: "All jobs processed."
EndRun ==
    /\ pc = "loop"
    /\ idx > Len(results)
    /\ pc' = "idle"
    /\ UNCHANGED <<typed, mainVars>>
    /\ UNCHANGED <<textVars, sizeVars, urlVars>>

NextMain == StartRun \/ ProcessUrl \/ EndRun

SpecMain == InitMain /\ [][NextMain]_vars

-----------------------------------------------------------------------------
(* The claims about the script                                             *)

\* The rows of job_results.csv, as a set of positions.
Rows == DOMAIN job_results

\* C14: job_results.csv holds at most one row per normalized URL: a URL
\* that was appended, in an earlier run or earlier in the same run, is not
\* appended again.
C14_OneRowPerUrl ==
    \A i, j \in Rows : i # j => job_results[i].url # job_results[j].url

\* The part of C14 the code keeps: a URL appended in one run is not
\* appended in a later run.
C14_OneRunPerUrl ==
    \A i, j \in Rows :
        job_results[i].url = job_results[j].url
            => job_results[i].date_first_seen = job_results[j].date_first_seen

\* The four fields extract_job_info fills from the page.
Extracted(job_info) ==
    {job_info.job_title, job_info.company_name, job_info.location,
     job_info.description}

\* Some, but not all, of the four fields could be extracted.
PartialInfo(job_info) ==
    /\ job_info # NoInfo
    /\ \E v \in Extracted(job_info) : ~Falsy(v)
    /\ \E v \in Extracted(job_info) : Falsy(v)

\* The locations a page of the model may yield, and those in_usa accepts.
PageLocations ==
    {extract_job_info_of[u][page].location :
        u \in NormalizedTwice, page \in Pages} \ {NoneValue}

InRegion == {l \in PageLocations : in_usa(l)}

\* Company name and job title were extracted, and the job is missing its
\* location, or has a location of the region and is missing its description.
SavedAsPartial(job_info) ==
    /\ ~Falsy(job_info.company_name)
    /\ ~Falsy(job_info.job_title)
    /\ \/ Falsy(job_info.location)
       \/ job_info.location \in InRegion /\ Falsy(job_info.description)

\* C15: if company name and job title were extracted for a URL, but not the
\* location, or a location of the region but no description, and the rating
\* lookup returned, then the iteration appends a row with that URL to
\* job_results.csv; and no later run calls extract_job_info for a URL that
\* an earlier run appended.
C15_PartialInfoWithCompanySaved ==
    /\ \A k \in DOMAIN fetched :
           /\ SavedAsPartial(fetched[k].job_info) /\ fetched[k].lookup # "raised"
                  => /\ fetched[k].saved
                     /\ job_results # <<>>
                     /\ job_results[Len(job_results)].url = fetched[k].url
                     /\ job_results[Len(job_results)].date_first_seen = run_count
           /\ \A i \in Rows :
                  job_results[i].date_first_seen < run_count
                      => job_results[i].url # fetched[k].url
    /\ pc = "loop" =>
           \A i \in Rows :
               job_results[i].date_first_seen < run_count
                   => job_results[i].url \in existing_urls

\* In the second run the script has skipped, without a call of
\* extract_job_info, a URL that the first run saved without a location.
C15_Witness ==
    /\ pc = "loop"
    /\ run_count = 2
    /\ idx = 2
    /\ fetched = <<>>
    /\ \E i \in Rows :
           /\ job_results[i].date_first_seen = 1
           /\ job_results[i].location = <<>>
           /\ job_results[i].company_name # <<>>
           /\ job_results[i].url = normalize_url_of[results[1]]

\* C15 as stated: whenever only a part of the information could be
\* extracted for a URL, the URL is saved to job_results.csv.
C15_PartialInfoSaved ==
    \A k \in DOMAIN fetched :
        PartialInfo(fetched[k].job_info) => fetched[k].saved

\* C16: a job whose extracted location is non-empty and not of the region
\* is not appended, and every row of job_results.csv has a non-empty
\* company_name and a location that is empty or of the region.
C16_LocationFilter ==
    /\ \A k \in DOMAIN fetched :
           LET found == fetched[k].job_info.location
           IN  ~Falsy(found) /\ found \notin InRegion
                   => ~fetched[k].saved
    /\ \A i \in Rows :
           /\ job_results[i].company_name # <<>>
           /\ job_results[i].location = <<>>
                  \/ job_results[i].location \in InRegion

\* A job with company name, title, description and the location
\* "Germany - Frankfurt" has passed the rating lookup and was not saved.
C16_Witness ==
    /\ fetched # <<>>
    /\ fetched[1].lookup \in {"cached", "data", "error"}
    /\ fetched[1].job_info.location = Loc_Germany
    /\ ~in_usa(Loc_Germany)
    /\ ~Falsy(fetched[1].job_info.company_name)
    /\ ~Falsy(fetched[1].job_info.description)
    /\ ~fetched[1].saved

=============================================================================
